---- MODULE Spec2Model ----
(***************************************************************************)
(* A model of the gc_lang front end: the mid-level IR arena (File) with    *)
(* its patch store, the lowering of parse trees into that arena, and the   *)
(* indentation-governed Pratt parser over the lexer's token stream.        *)
(*                                                                         *)
(* Option<T> is modelled as a sequence of length 0 (None) or 1 (Some).     *)
(* A hash map is modelled as a function whose DOMAIN is its key set.       *)
(***************************************************************************)
EXTENDS Integers, Sequences, FiniteSets, TLC

VARIABLES
    file,       \* mid_ast::File under direct use of its add/patch interface
    issued,     \* history: every index handed out by add_* / patch_*, with its value
    tree,       \* the parse tree given to convert_parse_tree
    this,       \* FileConversion {file, raw_func_queue}
    lpc,        \* position inside FileConversion::convert
    src,        \* the token stream given to the parser
    res,        \* the parser's result
    ppc         \* position of the parser run

vars == <<file, issued, tree, this, lpc, src, res, ppc>>

(***************************************************************************)
(* Bounds of the model.                                                    *)
(***************************************************************************)
MaxArenaOps == 4

\* Longest top-level statement list given to convert_parse_tree.
MaxTop == 2

(***************************************************************************)
(* Small helpers.                                                          *)
(***************************************************************************)
None == <<>>

Some(x) == <<x>>

\* usize::MAX, the all-ones word.  It is only compared for equality and
\* against arena lengths, so it is represented by the all-ones signed value.
usize_MAX == -1

Range(s) == {s[i] : i \in DOMAIN s}

\* map.entry(k).or_default().push(v)
entry_push(m, k, v) ==
    IF k \in DOMAIN m THEN [m EXCEPT ![k] = Append(@, v)]
    ELSE [x \in DOMAIN m \cup {k} |-> IF x = k THEN <<v>> ELSE m[x]]

\* The value a panicking accessor never returns.
PANIC == [kind |-> "PANIC"]

(***************************************************************************)
(* mid_ast/tree.rs: indices.                                               *)
(***************************************************************************)
StmtIndex(r, p) == [root |-> r, patch |-> p]

ExprIndex(r, p) == [root |-> r, patch |-> p]

StmtIndex_invalid == StmtIndex(usize_MAX, 0)

VarIndex_invalid == usize_MAX

(***************************************************************************)
(* mid_ast/tree.rs: IR statements and expressions.                         *)
(***************************************************************************)
IrVarDef(v) == [kind |-> "VarDef", var |-> v]

IrVarSet(n, d, v) == [kind |-> "VarSet", name |-> n, data |-> d, var |-> v]

IrIfElse(c, b, e, l) ==
    [kind |-> "IfElse", condition |-> c, block |-> b, else_block |-> e, last |-> l]

IrConditional(cs, as, l) ==
    [kind |-> "Conditional", conditions |-> cs, actions |-> as, last |-> l]

IrDisown(e) == [kind |-> "Disown", expr |-> e]

IrExprStmt(e) == [kind |-> "Expr", expr |-> e]

IrReturn(oe) == [kind |-> "Return", expr |-> oe]

IrSkip == [kind |-> "Skip"]

IrOperation(l, r, op) == [kind |-> "Operation", left |-> l, right |-> r, op |-> op]

IrField(l, n) == [kind |-> "Field", left |-> l, name |-> n]

IrGroup(list) == [kind |-> "Group", items |-> list]

IrRawVar(n) == [kind |-> "RawVar", name |-> n]

IrNumber(n) == [kind |-> "Number", num |-> n]

IrString(s) == [kind |-> "String", str |-> s]

IrBorrow(e) == [kind |-> "Borrow", inner |-> e]

IrDeref(e) == [kind |-> "Deref", inner |-> e]

IrNone == [kind |-> "None"]

IrActExpr(e) == [kind |-> "Expr", expr |-> e]

IrActScope(b) == [kind |-> "Scope", block |-> b]

Block(f, l, s) == [first |-> f, last |-> l, scope |-> s]

(***************************************************************************)
(* mid_ast/tree.rs: File.                                                  *)
(***************************************************************************)
File_new ==
    [stmts |-> <<>>, patch_stmts |-> <<>>,
     exprs |-> <<>>, patch_exprs |-> <<>>,
     scopes |-> <<>>, functions |-> <<>>, vars |-> <<>>,
     root_scope |-> 0]

\* Each add_* / patch_* returns the pair [file, index].  Arena positions are
\* 0-based as in the source; position i of a Vec is element i + 1 of the
\* sequence that models it.
add_var(f, var) ==
    [file |-> [f EXCEPT !.vars = Append(@, var)], index |-> Len(f.vars)]

add_function(f, function) ==
    [file |-> [f EXCEPT !.functions = Append(@, function)], index |-> Len(f.functions)]

add_scope(f, scope) ==
    [file |-> [f EXCEPT !.scopes = Append(@, scope)], index |-> Len(f.scopes)]

\* A mis-addressed add_stmt: the index is taken after the push.
add_stmt_late(f, stmt) ==
    [file |-> [f EXCEPT !.stmts = Append(@, stmt)],
     index |-> StmtIndex(Len(f.stmts) + 1, 0)]

add_stmt(f, stmt) ==
    [file |-> [f EXCEPT !.stmts = Append(@, stmt)],
     index |-> StmtIndex(Len(f.stmts), 0)]

patch_stmt(f, patch, location) ==
    LET entry == entry_push(f.patch_stmts, location.root, patch)
    IN  [file |-> [f EXCEPT !.patch_stmts = entry],
         index |-> StmtIndex(location.root, Len(entry[location.root]))]

\* A mis-addressed add_expr: the index is taken after the push.
add_expr_late(f, expr) ==
    [file |-> [f EXCEPT !.exprs = Append(@, expr)],
     index |-> ExprIndex(Len(f.exprs) + 1, 0)]

add_expr(f, expr) ==
    [file |-> [f EXCEPT !.exprs = Append(@, expr)],
     index |-> ExprIndex(Len(f.exprs), 0)]

patch_expr(f, patch, location) ==
    LET entry == entry_push(f.patch_exprs, location.root, patch)
    IN  [file |-> [f EXCEPT !.patch_exprs = entry],
         index |-> ExprIndex(location.root, Len(entry[location.root]))]

\* Vec indexing and Option::unwrap panic instead of returning a value.
get_stmt(f, loc) ==
    IF loc.patch = 0
    THEN IF loc.root >= 0 /\ loc.root < Len(f.stmts)
         THEN f.stmts[loc.root + 1] ELSE PANIC
    ELSE IF loc.root \in DOMAIN f.patch_stmts
            /\ loc.patch - 1 < Len(f.patch_stmts[loc.root])
         THEN f.patch_stmts[loc.root][loc.patch] ELSE PANIC

get_expr(f, loc) ==
    IF loc.patch = 0
    THEN IF loc.root >= 0 /\ loc.root < Len(f.exprs)
         THEN f.exprs[loc.root + 1] ELSE PANIC
    ELSE IF loc.root \in DOMAIN f.patch_exprs
            /\ loc.patch - 1 < Len(f.patch_exprs[loc.root])
         THEN f.patch_exprs[loc.root][loc.patch] ELSE PANIC

(***************************************************************************)
(* Specification SpecFile: a later pass using the File interface directly. *)
(* Any statement / expression may be appended, and a patch may be recorded *)
(* at any location (patch_stmt does not look at the root arena).           *)
(***************************************************************************)
SampleStmts == {IrSkip, IrReturn(None)}

SampleExprs == {IrNone, IrBorrow(ExprIndex(0, 0))}

SampleLocs == {StmtIndex(0, 0), StmtIndex(1, 0), StmtIndex(1, 1)}

ArenaOps(f) ==
    LET Sum(m) == IF DOMAIN m = {} THEN 0
                  ELSE LET Tot[S \in SUBSET DOMAIN m] ==
                               IF S = {} THEN 0
                               ELSE LET k == CHOOSE k \in S : TRUE
                                    IN  Len(m[k]) + Tot[S \ {k}]
                       IN  Tot[DOMAIN m]
    IN  Len(f.stmts) + Len(f.exprs) + Sum(f.patch_stmts) + Sum(f.patch_exprs)

Idle == /\ tree = <<>> /\ this = [file |-> File_new, raw_func_queue |-> <<>>]
        /\ lpc = "idle" /\ src = <<>> /\ res = <<>> /\ ppc = "idle"

InitFile == /\ file = File_new /\ issued = {} /\ Idle

AddStmt ==
    /\ ArenaOps(file) < MaxArenaOps
    /\ \E s \in SampleStmts :
         LET r == add_stmt(file, s)
         IN  /\ file' = r.file
             /\ issued' = issued \cup
                  {[arena |-> "stmt", via |-> "add", idx |-> r.index, val |-> s,
                    loc |-> r.index]}
    /\ UNCHANGED <<tree, this, lpc, src, res, ppc>>

PatchStmt ==
    /\ ArenaOps(file) < MaxArenaOps
    /\ \E p \in SampleStmts, l \in SampleLocs :
         LET r == patch_stmt(file, p, l)
         IN  /\ file' = r.file
             /\ issued' = issued \cup
                  {[arena |-> "stmt", via |-> "patch", idx |-> r.index, val |-> p,
                    loc |-> l]}
    /\ UNCHANGED <<tree, this, lpc, src, res, ppc>>

AddExpr ==
    /\ ArenaOps(file) < MaxArenaOps
    /\ \E e \in SampleExprs :
         LET r == add_expr(file, e)
         IN  /\ file' = r.file
             /\ issued' = issued \cup
                  {[arena |-> "expr", via |-> "add", idx |-> r.index, val |-> e,
                    loc |-> r.index]}
    /\ UNCHANGED <<tree, this, lpc, src, res, ppc>>

PatchExpr ==
    /\ ArenaOps(file) < MaxArenaOps
    /\ \E p \in SampleExprs, l \in SampleLocs :
         LET r == patch_expr(file, p, l)
         IN  /\ file' = r.file
             /\ issued' = issued \cup
                  {[arena |-> "expr", via |-> "patch", idx |-> r.index, val |-> p,
                    loc |-> l]}
    /\ UNCHANGED <<tree, this, lpc, src, res, ppc>>

NextFile == AddStmt \/ PatchStmt \/ AddExpr \/ PatchExpr

SpecFile == InitFile /\ [][NextFile]_vars

Resolve(f, h) == IF h.arena = "stmt" THEN get_stmt(f, h.idx) ELSE get_expr(f, h.idx)

\* C1: every index issued by add_stmt / add_expr resolves to the value that
\* was appended, every index issued by patch_stmt / patch_expr at loc is
\* {root: loc.root, patch: k} with k >= 1 and resolves to the patch, and no
\* later add or patch changes that.
C1_PatchAddressingStable ==
    \A h \in issued :
        /\ Resolve(file, h) = h.val
        /\ h.via = "add" => h.idx.patch = 0
        /\ h.via = "patch" => h.idx.root = h.loc.root /\ h.idx.patch >= 1

\* A patch was recorded on top of an added statement and a later add and a
\* second patch of the same root followed.
C1_Witness ==
    \E a, p, q \in issued :
        /\ a.arena = "stmt" /\ a.via = "add"
        /\ p.arena = "stmt" /\ p.via = "patch" /\ p.loc = a.idx
        /\ q.arena = "stmt" /\ q.via = "patch" /\ q.idx.root = a.idx.root
        /\ q.idx.patch = 2 /\ q.val # p.val /\ p.val # a.val
        /\ Len(file.stmts) >= 2

(***************************************************************************)
(* parser/tree.rs: the parse tree.  A parser Block is the sequence of its  *)
(* statements.                                                             *)
(***************************************************************************)
PFunctionDef(is_proc, name, pattern, block) ==
    [kind |-> "FunctionDef", is_proc |-> is_proc, name |-> name,
     pattern |-> pattern, block |-> block]

PVarDef(mutable, name, data) ==
    [kind |-> "VarDef", mutable |-> mutable, name |-> name, data |-> data]

PVarSet(name, data) == [kind |-> "VarSet", name |-> name, data |-> data]

PIfElse(condition, block, default) ==
    [kind |-> "IfElse", condition |-> condition, block |-> block, default |-> default]

PConditional(conditions, actions) ==
    [kind |-> "Conditional", conditions |-> conditions, actions |-> actions]

PScope(block) == [kind |-> "Scope", block |-> block]

PDisown(e) == [kind |-> "Disown", expr |-> e]

PReturn(opt) == [kind |-> "Return", expr |-> opt]

PExprStmt(e) == [kind |-> "Expr", expr |-> e]

PActExpr(e) == [kind |-> "Expr", expr |-> e]

PActScope(block) == [kind |-> "Scope", block |-> block]

POperation(left, right, op) ==
    [kind |-> "Operation", left |-> left, right |-> right, op |-> op]

PField(left, name) == [kind |-> "Field", left |-> left, name |-> name]

PGroup(list) == [kind |-> "Group", items |-> list]

PVar(name) == [kind |-> "Var", name |-> name]

PNumber(n) == [kind |-> "Number", num |-> n]

PString(s) == [kind |-> "String", str |-> s]

PBorrow(inner) == [kind |-> "Borrow", inner |-> inner]

PDeref(inner) == [kind |-> "Deref", inner |-> inner]

PNoneExpr == [kind |-> "None"]

PatGroup(items) == [kind |-> "Group", items |-> items]

PatName(n) == [kind |-> "Name", name |-> n]

PatNumber(n) == [kind |-> "Number", num |-> n]

PatNone == [kind |-> "None"]

\* Hasher::write_i64: the eight little-endian bytes of n.  Pattern numbers
\* come from digit strings, so n >= 0; the model's numbers are below 2^31.
write_i64(n) ==
    <<n % 256, (n \div 256) % 256, (n \div 65536) % 256, (n \div 16777216) % 256,
      0, 0, 0, 0>>

RECURSIVE Pattern_hash(_)
RECURSIVE Pattern_hash_items(_)
\* impl Hash for Pattern: the bytes fed to the hasher.
Pattern_hash(p) ==
    CASE p.kind = "Group" -> <<0>> \o Pattern_hash_items(p.items) \o <<1>>
      [] p.kind = "Name" -> <<2>>
      [] p.kind = "Number" -> <<3>> \o write_i64(p.num)
      [] p.kind = "None" -> <<4>>

Pattern_hash_items(items) ==
    IF items = <<>> THEN <<>>
    ELSE Pattern_hash(Head(items)) \o Pattern_hash_items(Tail(items))

RECURSIVE Pattern_eq(_, _)
\* impl PartialEq for Pattern (Vec equality: same length, pairwise equal).
Pattern_eq(l, r) ==
    CASE l.kind = "Group" /\ r.kind = "Group" ->
            /\ Len(l.items) = Len(r.items)
            /\ \A i \in 1..Len(l.items) : Pattern_eq(l.items[i], r.items[i])
      [] l.kind = "Name" /\ r.kind = "Name" -> TRUE
      [] l.kind = "Number" /\ r.kind = "Number" -> l.num = r.num
      [] l.kind = "None" /\ r.kind = "None" -> TRUE
      [] OTHER -> FALSE

\* A HashMap<Rc<Pattern>, FunctionIndex> is the sequence of its entries; a
\* probe finds an entry whose key hashes like the probe and compares equal.
HashMap_find(tbl, k) ==
    {i \in 1..Len(tbl) : Pattern_hash(tbl[i].key) = Pattern_hash(k)
                         /\ Pattern_eq(tbl[i].key, k)}

\* A table insert that never finds the key already present.
HashMap_insert_dup(tbl, k, v) == Append(tbl, [key |-> k, value |-> v])

\* HashMap::insert: a present key keeps its place (and the old key) and gets
\* the new value; an absent one is added.
HashMap_insert(tbl, k, v) ==
    IF HashMap_find(tbl, k) # {}
    THEN [tbl EXCEPT ![CHOOSE i \in HashMap_find(tbl, k) : TRUE].value = v]
    ELSE Append(tbl, [key |-> k, value |-> v])

(***************************************************************************)
(* mid_ast/tree.rs: Scope, VarMetadata, FunctionDef.                       *)
(***************************************************************************)
Scope(first, last) ==
    [first |-> first, last |-> last, stack_slots |-> 0,
     vars |-> <<>>, functions |-> <<>>, scopes |-> <<>>]

VarMetadata(in_scope, definition, init, mutable, name) ==
    [in_scope |-> in_scope, definition |-> definition, init |-> init,
     disown |-> None, data_type |-> "Undetermined",
     borrows |-> <<>>, uses |-> <<>>, derefs |-> <<>>, assigns |-> <<>>,
     mem_loc |-> "Undetermined", mutable |-> mutable, name |-> name]

FunctionDef(is_proc, name, pattern, block) ==
    [is_proc |-> is_proc, name |-> name, pattern |-> pattern, block |-> block]

(***************************************************************************)
(* mid_ast/conversion.rs: FileConversion.  Every operator takes the        *)
(* FileConversion st it works on and returns the one it leaves.            *)
(***************************************************************************)
FileConversion_new == [file |-> File_new, raw_func_queue |-> <<>>]

RawFunction(owning_scope, is_proc, name, pattern, block) ==
    [owning_scope |-> owning_scope, is_proc |-> is_proc, name |-> name,
     pattern |-> pattern, block |-> block]

StmtReturn(function, var, scopes) ==
    [function |-> function, var |-> var, scopes |-> scopes]

next_stmt_index(st) == StmtIndex(Len(st.file.stmts), 0)

\* A this_stmt_index that does not saturate at 0.
this_stmt_index_wrapping(st) == StmtIndex(Len(st.file.stmts) - 1, 0)

\* usize::saturating_sub(1)
this_stmt_index(st) ==
    StmtIndex(IF Len(st.file.stmts) = 0 THEN 0 ELSE Len(st.file.stmts) - 1, 0)

\* `let v = e; body`: e is evaluated first, as a Rust `let` does, and its
\* value is bound to the parameter of Op.
Bind(v, Op(_)) == CHOOSE r \in {Op(x) : x \in {v}} : TRUE

\* self.file.add_expr(expr)
emit_expr(st, expr) ==
    Bind(add_expr(st.file, expr),
         LAMBDA a : [this |-> [st EXCEPT !.file = a.file], index |-> a.index])

\* self.file.add_stmt(stmt); the returned index is dropped by every caller
emit_stmt(st, stmt) == [st EXCEPT !.file = add_stmt(st.file, stmt).file]

RECURSIVE convert_expr(_, _)
RECURSIVE convert_exprs(_, _)
\* Returns [this, index].
convert_expr(st, expr) ==
    CASE expr.kind = "Operation" ->
            Bind(convert_expr(st, expr.left), LAMBDA left :
            Bind(convert_expr(left.this, expr.right), LAMBDA right :
                emit_expr(right.this, IrOperation(left.index, right.index, expr.op))))
      [] expr.kind = "Field" ->
            Bind(convert_expr(st, expr.left), LAMBDA left :
                emit_expr(left.this, IrField(left.index, expr.name)))
      [] expr.kind = "Group" ->
            Bind(convert_exprs(st, expr.items), LAMBDA new_list :
                emit_expr(new_list.this, IrGroup(new_list.list)))
      [] expr.kind = "Var" -> emit_expr(st, IrRawVar(expr.name))
      [] expr.kind = "Number" -> emit_expr(st, IrNumber(expr.num))
      [] expr.kind = "String" -> emit_expr(st, IrString(expr.str))
      [] expr.kind = "Borrow" ->
            Bind(convert_expr(st, expr.inner), LAMBDA inner :
                emit_expr(inner.this, IrBorrow(inner.index)))
      [] expr.kind = "Deref" ->
            Bind(convert_expr(st, expr.inner), LAMBDA inner :
                emit_expr(inner.this, IrDeref(inner.index)))
      [] expr.kind = "None" -> emit_expr(st, IrNone)

\* list.into_iter().map(|e| self.convert_expr(e)).collect()
convert_exprs(st, list) ==
    IF list = <<>> THEN [this |-> st, list |-> <<>>]
    ELSE Bind(convert_expr(st, Head(list)), LAMBDA h :
         Bind(convert_exprs(h.this, Tail(list)), LAMBDA t :
             [this |-> t.this, list |-> <<h.index>> \o t.list]))

\* if let Some(e) = opt { Some(self.convert_expr(e)) } else { None }
convert_opt_expr(st, opt) ==
    IF opt # None
    THEN Bind(convert_expr(st, opt[1]), LAMBDA c :
             [this |-> c.this, index |-> Some(c.index)])
    ELSE [this |-> st, index |-> None]

RECURSIVE convert_stmt(_, _, _)
RECURSIVE convert_actions(_, _)
RECURSIVE convert_block_loop(_, _, _, _)
RECURSIVE convert_block(_, _)
\* if let Some(else_block) = default { ... } after the `if` block was
\* lowered; returns [this, block, scopes].
convert_else(block, default) ==
    IF default # None
    THEN Bind(convert_block(block.this, default[1]), LAMBDA b :
             [this |-> b.this, block |-> Some(b.block),
              scopes |-> <<block.block.scope, b.block.scope>>])
    ELSE [this |-> block.this, block |-> None, scopes |-> <<block.block.scope>>]

\* Returns [this, ret]: the FileConversion left behind and the StmtReturn.
convert_stmt(st, scope, stmt) ==
    CASE stmt.kind = "FunctionDef" ->
            [this |-> st,
             ret |-> StmtReturn(
                 Some(RawFunction(scope, stmt.is_proc, stmt.name, stmt.pattern,
                                  stmt.block)),
                 None, <<>>)]
      [] stmt.kind = "VarDef" ->
            Bind(convert_opt_expr(st, stmt.data), LAMBDA data :
            Bind(add_var(data.this.file,
                         VarMetadata(scope, this_stmt_index(data.this),
                                     data.index, stmt.mutable, stmt.name)),
                 LAMBDA def :
                [this |-> emit_stmt([data.this EXCEPT !.file = def.file],
                                    IrVarDef(def.index)),
                 ret |-> StmtReturn(None, Some(<<stmt.name, def.index>>), <<>>)]))
      [] stmt.kind = "VarSet" ->
            Bind(convert_expr(st, stmt.data), LAMBDA data :
                [this |-> emit_stmt(data.this,
                                    IrVarSet(stmt.name, data.index, VarIndex_invalid)),
                 ret |-> StmtReturn(None, None, <<>>)])
      [] stmt.kind = "IfElse" ->
            Bind(convert_expr(st, stmt.condition), LAMBDA condition :
            Bind(convert_block(condition.this, stmt.block), LAMBDA block :
            Bind(convert_else(block, stmt.default), LAMBDA else_block :
                [this |-> emit_stmt(else_block.this,
                                    IrIfElse(condition.index, block.block,
                                             else_block.block,
                                             this_stmt_index(else_block.this))),
                 ret |-> StmtReturn(None, None, else_block.scopes)])))
      [] stmt.kind = "Conditional" ->
            Bind(convert_exprs(st, stmt.conditions), LAMBDA conditions :
            Bind(convert_actions(conditions.this, stmt.actions), LAMBDA actions :
                [this |-> emit_stmt(actions.this,
                                    IrConditional(conditions.list, actions.list,
                                                  this_stmt_index(actions.this))),
                 ret |-> StmtReturn(None, None, actions.scopes)]))
      [] stmt.kind = "Scope" ->
            Bind(convert_block(st, stmt.block), LAMBDA block :
                [this |-> block.this,
                 ret |-> StmtReturn(None, None, <<block.block.scope>>)])
      [] stmt.kind = "Disown" ->
            Bind(convert_expr(st, stmt.expr), LAMBDA e :
                [this |-> emit_stmt(e.this, IrDisown(e.index)),
                 ret |-> StmtReturn(None, None, <<>>)])
      [] stmt.kind = "Return" ->
            Bind(convert_opt_expr(st, stmt.expr), LAMBDA e :
                [this |-> emit_stmt(e.this, IrReturn(e.index)),
                 ret |-> StmtReturn(None, None, <<>>)])
      [] stmt.kind = "Expr" ->
            Bind(convert_expr(st, stmt.expr), LAMBDA e :
                [this |-> emit_stmt(e.this, IrExprStmt(e.index)),
                 ret |-> StmtReturn(None, None, <<>>)])

\* One ConditionalAction; returns [this, act, scopes].
convert_action(st, act) ==
    IF act.kind = "Expr"
    THEN Bind(convert_expr(st, act.expr), LAMBDA e :
             [this |-> e.this, act |-> IrActExpr(e.index), scopes |-> <<>>])
    ELSE Bind(convert_block(st, act.block), LAMBDA b :
             [this |-> b.this, act |-> IrActScope(b.block),
              scopes |-> <<b.block.scope>>])

\* actions.into_iter().map(|act| ...).collect(), with the scopes it pushes
convert_actions(st, acts) ==
    IF acts = <<>> THEN [this |-> st, list |-> <<>>, scopes |-> <<>>]
    ELSE Bind(convert_action(st, Head(acts)), LAMBDA h :
         Bind(convert_actions(h.this, Tail(acts)), LAMBDA t :
             [this |-> t.this, list |-> <<h.act>> \o t.list,
              scopes |-> h.scopes \o t.scopes]))

\* What convert_block does with the StmtReturn of one statement: the var is
\* registered, the scopes are appended; returns the FileConversion.
\* register_ret entering the binding in the table of scope 0.
register_ret_root(st, scope_index, ret) ==
    [st EXCEPT !.file.scopes[1].vars =
                   IF ret.var # None
                   THEN entry_push(@, ret.var[1][1], ret.var[1][2]) ELSE @,
               !.file.scopes[scope_index + 1].scopes = @ \o ret.scopes]

register_ret(st, scope_index, ret) ==
    [st EXCEPT !.file.scopes[scope_index + 1].vars =
                   IF ret.var # None
                   THEN entry_push(@, ret.var[1][1], ret.var[1][2]) ELSE @,
               !.file.scopes[scope_index + 1].scopes = @ \o ret.scopes]

\* The body of `for stmt in stmts` in convert_block; returns the
\* FileConversion and the local `functions` vector.
convert_block_loop(st, scope_index, stmts, functions) ==
    IF stmts = <<>> THEN [this |-> st, functions |-> functions]
    ELSE Bind(convert_stmt(st, scope_index, Head(stmts)), LAMBDA r :
             convert_block_loop(register_ret(r.this, scope_index, r.ret),
                                scope_index, Tail(stmts),
                                functions \o r.ret.function))

\* Returns [this, block].
convert_block(st, stmts) ==
    Bind(add_scope(st.file, Scope(next_stmt_index(st), next_stmt_index(st))),
         LAMBDA sc :
    Bind(convert_block_loop([st EXCEPT !.file = sc.file], sc.index, stmts, <<>>),
         LAMBDA loop :
        [this |-> [loop.this EXCEPT
                      !.file.scopes[sc.index + 1].last = this_stmt_index(loop.this),
                      !.raw_func_queue = @ \o loop.functions],
         block |-> Block(next_stmt_index(st), this_stmt_index(loop.this), sc.index)]))

\* scope.functions.entry(name).or_default().insert(pattern, index)
entry_insert(m, name, pattern, index) ==
    IF name \in DOMAIN m
    THEN [m EXCEPT ![name] = HashMap_insert(@, pattern, index)]
    ELSE [x \in DOMAIN m \cup {name} |->
             IF x = name THEN HashMap_insert(<<>>, pattern, index) ELSE m[x]]

convert_function(st, func) ==
    Bind(convert_block(st, func.block), LAMBDA block :
    Bind(add_function(block.this.file,
                      FunctionDef(func.is_proc, func.name, func.pattern, block.block)),
         LAMBDA fn :
        [block.this EXCEPT
            !.file = [fn.file EXCEPT !.scopes[func.owning_scope + 1].functions =
                          entry_insert(@, func.name, func.pattern, fn.index)]]))

(***************************************************************************)
(* Specification SpecLower: convert_parse_tree on a bounded family of      *)
(* parse trees.  Names are interner indices.  Nested blocks are non-empty, *)
(* as parse_block leaves them for every input that does not end inside a   *)
(* block header; TruncatedTail is the tree of such an input.               *)
(***************************************************************************)
BigExpr ==
    PGroup(<<POperation(PField(PVar(0), 2), PNumber(1), "Add"),
             PBorrow(PDeref(PString(3))), PNoneExpr>>)

LeafStmts ==
    {PVarDef(FALSE, 0, None), PVarDef(TRUE, 1, Some(BigExpr)),
     PVarSet(0, PVar(1)), PReturn(None), PDisown(PBorrow(PVar(0)))}

BodyBlocks ==
    {<<PVarDef(FALSE, 0, None)>>,
     <<PReturn(Some(PVar(0)))>>,
     <<PFunctionDef(FALSE, 5, PatGroup(<<>>), <<PReturn(None)>>)>>,
     <<PVarDef(FALSE, 0, None),
       PFunctionDef(TRUE, 4, PatGroup(<<PatName(1)>>), <<PExprStmt(PVar(1))>>)>>,
     <<PScope(<<PFunctionDef(FALSE, 5, PatGroup(<<>>), <<PVarSet(0, PNumber(1))>>)>>)>>}

CompoundStmts ==
    {PFunctionDef(FALSE, 4, PatGroup(<<PatName(0)>>), b) : b \in BodyBlocks}
    \cup {PFunctionDef(FALSE, 4, PatGroup(<<PatName(1)>>), <<PVarDef(FALSE, 0, None)>>),
          PFunctionDef(TRUE, 4, PatGroup(<<PatName(0), PatNumber(0)>>),
                       <<PReturn(Some(PVar(0)))>>)}
    \cup {PIfElse(PVar(0), b, None) : b \in BodyBlocks}
    \cup {PIfElse(PVar(0), <<PVarDef(FALSE, 0, None)>>, Some(b)) :
              b \in {<<PVarSet(0, PNumber(2))>>,
                     <<PFunctionDef(FALSE, 5, PatGroup(<<>>), <<PReturn(None)>>)>>}}
    \cup {PScope(b) : b \in BodyBlocks}
    \cup {PConditional(<<POperation(PVar(0), PNumber(0), "Equal"), PVar(1)>>,
                       <<PActScope(<<PVarDef(FALSE, 1, None), PReturn(None)>>),
                         PActExpr(PVar(0))>>)}

StmtPool == LeafStmts \cup CompoundStmts

SeqsUpTo(S, n) == UNION {[1..k -> S] : k \in 0..n}

\* `scope` followed by a newline and the end of the input
TruncatedTail == PScope(<<>>)

Trees ==
    SeqsUpTo(StmtPool, MaxTop)
    \cup {Append(t, TruncatedTail) : t \in SeqsUpTo(StmtPool, MaxTop - 1)}

InitLower ==
    /\ tree \in Trees
    /\ this = FileConversion_new
    /\ lpc = "start"
    /\ file = File_new /\ issued = {} /\ src = <<>> /\ res = <<>> /\ ppc = "idle"

\* this.file.root_scope = this.convert_block(PBlock(stmts)).scope
ConvertRoot ==
    /\ lpc = "start"
    /\ this' = Bind(convert_block(this, tree), LAMBDA b :
                    [b.this EXCEPT !.file.root_scope = b.block.scope])
    /\ lpc' = "drain"
    /\ UNCHANGED <<file, issued, tree, src, res, ppc>>

\* A drain step that forgets the rest of the worklist.
ConvertPop_clear ==
    /\ lpc = "drain"
    /\ this.raw_func_queue # <<>>
    /\ this' = convert_function([this EXCEPT !.raw_func_queue = <<>>],
                                this.raw_func_queue[Len(this.raw_func_queue)])
    /\ UNCHANGED <<file, issued, tree, lpc, src, res, ppc>>

\* A drain step that takes the oldest entry of the worklist.
ConvertPop_fifo ==
    /\ lpc = "drain"
    /\ this.raw_func_queue # <<>>
    /\ this' = convert_function([this EXCEPT !.raw_func_queue = Tail(@)],
                                this.raw_func_queue[1])
    /\ UNCHANGED <<file, issued, tree, lpc, src, res, ppc>>

\* while let Some(raw_function) = this.raw_func_queue.pop() { ... }
ConvertPop ==
    /\ lpc = "drain"
    /\ this.raw_func_queue # <<>>
    /\ this' = convert_function(
                    [this EXCEPT !.raw_func_queue = SubSeq(@, 1, Len(@) - 1)],
                    this.raw_func_queue[Len(this.raw_func_queue)])
    /\ UNCHANGED <<file, issued, tree, lpc, src, res, ppc>>

\* return this.file
ConvertReturn ==
    /\ lpc = "drain"
    /\ this.raw_func_queue = <<>>
    /\ lpc' = "done"
    /\ UNCHANGED <<file, issued, tree, this, src, res, ppc>>

NextLower == ConvertRoot \/ ConvertPop \/ ConvertReturn

SpecLower == InitLower /\ [][NextLower]_vars

(***************************************************************************)
(* The indices a File stores, by arena.                                    *)
(***************************************************************************)
UnionOver(sq, Op(_)) == UNION {Op(sq[i]) : i \in DOMAIN sq}

\* Blocks held by a statement.
StmtBlocks(s) ==
    CASE s.kind = "IfElse" -> {s.block} \cup Range(s.else_block)
      [] s.kind = "Conditional" ->
            {s.actions[i].block : i \in {j \in DOMAIN s.actions : s.actions[j].kind = "Scope"}}
      [] OTHER -> {}

StoredBlocks(f) ==
    UnionOver(f.stmts, StmtBlocks) \cup {f.functions[i].block : i \in DOMAIN f.functions}

StmtOwnStmtIdx(s) ==
    IF s.kind \in {"IfElse", "Conditional"} THEN {s.last} ELSE {}

StoredStmtIdx(f) ==
    UnionOver(f.stmts, StmtOwnStmtIdx)
    \cup UNION {{b.first, b.last} : b \in StoredBlocks(f)}
    \cup UNION {{f.scopes[i].first, f.scopes[i].last} : i \in DOMAIN f.scopes}
    \cup {f.vars[i].definition : i \in DOMAIN f.vars}

StmtExprIdx(s) ==
    CASE s.kind = "VarSet" -> {s.data}
      [] s.kind = "IfElse" -> {s.condition}
      [] s.kind = "Conditional" ->
            Range(s.conditions)
            \cup {s.actions[i].expr : i \in {j \in DOMAIN s.actions : s.actions[j].kind = "Expr"}}
      [] s.kind \in {"Disown", "Expr"} -> {s.expr}
      [] s.kind = "Return" -> Range(s.expr)
      [] OTHER -> {}

ExprExprIdx(e) ==
    CASE e.kind = "Operation" -> {e.left, e.right}
      [] e.kind = "Field" -> {e.left}
      [] e.kind = "Group" -> Range(e.items)
      [] e.kind \in {"Borrow", "Deref"} -> {e.inner}
      [] OTHER -> {}

StoredExprIdx(f) ==
    UnionOver(f.stmts, StmtExprIdx) \cup UnionOver(f.exprs, ExprExprIdx)
    \cup UNION {Range(f.vars[i].init) : i \in DOMAIN f.vars}

StoredScopeIdx(f) ==
    {b.scope : b \in StoredBlocks(f)}
    \cup UNION {Range(f.scopes[i].scopes) : i \in DOMAIN f.scopes}
    \cup {f.vars[i].in_scope : i \in DOMAIN f.vars}
    \cup {f.root_scope}

\* The (scope, name, table position) triples of all Scope.functions tables.
FunctionEntries(f) ==
    {<<s, n, k>> \in (DOMAIN f.scopes) \X (0..5) \X (1..Len(f.functions)) :
        n \in DOMAIN f.scopes[s].functions /\ k \in DOMAIN f.scopes[s].functions[n]}

EntryValue(f, e) == f.scopes[e[1]].functions[e[2]][e[3]].value

StoredFunctionIdx(f) == {EntryValue(f, e) : e \in FunctionEntries(f)}

VarSetVars(f) == {f.stmts[i].var : i \in {j \in DOMAIN f.stmts : f.stmts[j].kind = "VarSet"}}

VarDefVars(f) == {f.stmts[i].var : i \in {j \in DOMAIN f.stmts : f.stmts[j].kind = "VarDef"}}

ScopeVars(f) ==
    UNION {UNION {Range(f.scopes[i].vars[n]) : n \in DOMAIN f.scopes[i].vars} :
              i \in DOMAIN f.scopes}

InBounds(i, arena) == 0 <= i /\ i < Len(arena)

\* C2: after convert_parse_tree returns, every stored StmtIndex / ExprIndex
\* resolves (patch 0 and root in bounds, or a matching patch entry), every
\* stored ScopeIndex / FunctionIndex / VarIndex is in bounds of its arena,
\* and no stored index is the invalid() sentinel, VarSet.var included.
C2_AllStoredIndicesValid ==
    lpc = "done" =>
        LET f == this.file
        IN  /\ \A i \in StoredStmtIdx(f) : get_stmt(f, i) # PANIC
            /\ \A i \in StoredExprIdx(f) : get_expr(f, i) # PANIC
            /\ \A i \in StoredScopeIdx(f) : InBounds(i, f.scopes)
            /\ \A i \in StoredFunctionIdx(f) : InBounds(i, f.functions)
            /\ \A i \in VarDefVars(f) \cup ScopeVars(f) \cup VarSetVars(f) :
                   i # VarIndex_invalid /\ InBounds(i, f.vars)

\* C2 as amended: after convert_parse_tree returns, every stored ExprIndex,
\* ScopeIndex and FunctionIndex, every VarIndex of a Stmt::VarDef or a
\* Scope.vars list, and every StmtIndex stored as a VarMetadata.definition
\* or as the `last` of an IfElse / Conditional has patch 0 and a root in
\* bounds; the `var` of every Stmt::VarSet is the invalid() sentinel; the
\* first / last of every Scope and Block have patch 0, first.root is at
\* most stmts.len() and last.root is in bounds or 0 in an empty arena.
C2_StoredIndicesValidExceptPlaceholders ==
    lpc = "done" =>
        LET f == this.file
            Ranges == {[first |-> f.scopes[i].first, last |-> f.scopes[i].last] :
                          i \in DOMAIN f.scopes}
                      \cup {[first |-> b.first, last |-> b.last] : b \in StoredBlocks(f)}
        IN  /\ \A i \in StoredExprIdx(f) : i.patch = 0 /\ InBounds(i.root, f.exprs)
            /\ \A i \in StoredScopeIdx(f) : InBounds(i, f.scopes)
            /\ \A i \in StoredFunctionIdx(f) : InBounds(i, f.functions)
            /\ \A i \in VarDefVars(f) \cup ScopeVars(f) : InBounds(i, f.vars)
            /\ \A i \in VarSetVars(f) : i = VarIndex_invalid
            /\ \A i \in UnionOver(f.stmts, StmtOwnStmtIdx)
                        \cup {f.vars[k].definition : k \in DOMAIN f.vars} :
                   i.patch = 0 /\ InBounds(i.root, f.stmts)
            /\ \A r \in Ranges :
                   /\ r.first.patch = 0 /\ r.last.patch = 0
                   /\ 0 <= r.first.root /\ r.first.root <= Len(f.stmts)
                   /\ InBounds(r.last.root, f.stmts)
                      \/ (f.stmts = <<>> /\ r.last.root = 0)

\* Lowering finished on a tree with an assignment, nested expressions, a
\* function and an if/else or cond statement.
C2_Witness ==
    /\ lpc = "done"
    /\ VarSetVars(this.file) # {}
    /\ Len(this.file.exprs) >= 5
    /\ this.file.functions # <<>>
    /\ UnionOver(this.file.stmts, StmtOwnStmtIdx) # {}

\* C3: after convert_parse_tree returns, every FunctionDef is the value of
\* exactly one (scope, name, pattern) entry of the Scope.functions tables.
C3_EveryFunctionDefHasOneEntry ==
    lpc = "done" =>
        LET f == this.file
        IN  \A i \in 0..(Len(f.functions) - 1) :
                Cardinality({e \in FunctionEntries(f) : EntryValue(f, e) = i}) = 1

\* C4: after convert_parse_tree returns, every Scope and every Block has
\* first.root <= last.root.  (A block that emitted nothing gets
\* last = this_stmt_index(), so for it `last equals first` holds exactly
\* when first.root <= last.root does.)
C4_FirstNotAfterLast ==
    lpc = "done" =>
        LET f == this.file
        IN  /\ \A i \in DOMAIN f.scopes : f.scopes[i].first.root <= f.scopes[i].last.root
            /\ \A b \in StoredBlocks(f) : b.first.root <= b.last.root

\* C23: after lowering, the definition of every variable v is the index of
\* the Stmt::VarDef(v) statement: get_stmt(vars[v].definition) is VarDef(v).
C23_DefinitionIsTheVarDef ==
    lpc = "done" =>
        \A v \in 0..(Len(this.file.vars) - 1) :
            get_stmt(this.file, this.file.vars[v + 1].definition) = IrVarDef(v)

(***************************************************************************)
(* Specification SpecLowerFair: SpecLower where convert keeps running      *)
(* until it returns.                                                       *)
(***************************************************************************)
SpecLowerFair == SpecLower /\ WF_vars(NextLower)

RECURSIVE Flatten(_)
RECURSIVE FlattenActions(_)
\* The statements of a block and of the blocks nested in it, at any depth.
Flatten(block) ==
    IF block = <<>> THEN <<>>
    ELSE Bind(Head(block), LAMBDA s :
            <<s>>
            \o (CASE s.kind \in {"FunctionDef", "Scope"} -> Flatten(s.block)
                  [] s.kind = "IfElse" ->
                        Flatten(s.block)
                        \o (IF s.default = None THEN <<>> ELSE Flatten(s.default[1]))
                  [] s.kind = "Conditional" -> FlattenActions(s.actions)
                  [] OTHER -> <<>>))
         \o Flatten(Tail(block))

FlattenActions(acts) ==
    IF acts = <<>> THEN <<>>
    ELSE (IF Head(acts).kind = "Scope" THEN Flatten(Head(acts).block) ELSE <<>>)
         \o FlattenActions(Tail(acts))

\* The function definitions of the tree, at any depth.
TreeDefs == SelectSeq(Flatten(tree), LAMBDA s : s.kind = "FunctionDef")

\* A FunctionDef of the file is the lowering of the definition d.
LowersDef(fn, d) ==
    fn.is_proc = d.is_proc /\ fn.name = d.name /\ fn.pattern = d.pattern

\* C19: lowering terminates, and when it has, the worklist is empty,
\* file.functions has one FunctionDef per definition of the tree at any
\* depth, each with a body scope of its own, and the statement stream has
\* one statement per statement of the tree that is neither a definition nor
\* a scope.
C19_EveryDefinitionLoweredOnce ==
    /\ <>(lpc = "done")
    /\ [](lpc = "done" =>
            LET f == this.file
            IN  /\ this.raw_func_queue = <<>>
                /\ Len(f.functions) = Len(TreeDefs)
                /\ \A d \in Range(TreeDefs) :
                      Cardinality({i \in DOMAIN f.functions : LowersDef(f.functions[i], d)})
                          = Cardinality({j \in DOMAIN TreeDefs : LowersDef(TreeDefs[j], d)})
                /\ \A i, j \in DOMAIN f.functions :
                      /\ InBounds(f.functions[i].block.scope, f.scopes)
                      /\ f.functions[i].block.scope # f.root_scope
                      /\ i # j => f.functions[i].block.scope # f.functions[j].block.scope
                /\ Len(f.stmts) =
                       Len(SelectSeq(Flatten(tree),
                                     LAMBDA s : s.kind \notin {"FunctionDef", "Scope"})))

\* A definition nested in a function body, found while draining, and a
\* second top-level definition were lowered.
C19_Witness ==
    /\ lpc = "done"
    /\ Len(tree) = 2
    /\ tree[1].kind = "FunctionDef" /\ tree[2].kind = "FunctionDef"
    /\ \E i \in DOMAIN tree[1].block : tree[1].block[i].kind = "FunctionDef"
    /\ Len(this.file.functions) >= 3

(***************************************************************************)
(* Specification SpecPattern: convert_parse_tree on two definitions of one *)
(* function name in the root scope, over a bounded family of patterns.     *)
(***************************************************************************)
MaxWidth == 2

\* The binders x and y, the numbers 0 and 1, and None.
PatLeaves == {PatName(0), PatName(1), PatNumber(0), PatNumber(1), PatNone}

\* Groups of up to MaxWidth leaves.
PatGroups == {PatGroup(items) : items \in SeqsUpTo(PatLeaves, MaxWidth)}

\* Groups whose first item is a group of at most one leaf.
PatNested ==
    {PatGroup(<<g>> \o rest) :
        g \in {PatGroup(items) : items \in SeqsUpTo(PatLeaves, 1)},
        rest \in {<<>>, <<PatName(0)>>, <<PatNumber(0)>>}}

Patterns == PatLeaves \cup PatGroups \cup PatNested

\* `func f p` and `func f q`, each with the body `x`
PatternTree(p, q) ==
    <<PFunctionDef(FALSE, 2, p, <<PExprStmt(PVar(0))>>),
      PFunctionDef(FALSE, 2, q, <<PExprStmt(PVar(0))>>)>>

InitPattern ==
    /\ tree \in {PatternTree(p, q) : p, q \in Patterns}
    /\ this = FileConversion_new
    /\ lpc = "start"
    /\ file = File_new /\ issued = {} /\ src = <<>> /\ res = <<>> /\ ppc = "idle"

SpecPattern == InitPattern /\ [][NextLower]_vars

RECURSIVE Shape(_)
\* The pattern with every Name binder replaced by one fixed binder.
Shape(p) ==
    CASE p.kind = "Name" -> PatName(0)
      [] p.kind = "Group" -> PatGroup([i \in DOMAIN p.items |-> Shape(p.items[i])])
      [] OTHER -> p

\* C13: two patterns are equal exactly when they have the same shape, equal
\* patterns feed the hasher the same bytes, and the functions[name] table
\* of the scope that owns two definitions of a name keeps one key when
\* their patterns are equal and two keys when they are not.
C13_PatternEqualityByShape ==
    LET p == tree[1].pattern
        q == tree[2].pattern
    IN  /\ Pattern_eq(p, q) <=> (Shape(p) = Shape(q))
        /\ Pattern_eq(p, q) => (Pattern_hash(p) = Pattern_hash(q))
        /\ lpc = "done" =>
              Len(this.file.scopes[this.file.root_scope + 1].functions[2])
                  = IF Pattern_eq(p, q) THEN 1 ELSE 2

\* `(x, 0)` and `(y, 0)` were lowered to one key.
C13_Witness ==
    /\ lpc = "done"
    /\ tree = PatternTree(PatGroup(<<PatName(0), PatNumber(0)>>),
                          PatGroup(<<PatName(1), PatNumber(0)>>))
    /\ Len(this.file.scopes[this.file.root_scope + 1].functions[2]) = 1

(***************************************************************************)
(* Specification SpecOverload: convert_parse_tree on two to MaxDefs        *)
(* definitions of one function name in one block, the root or a `scope`.   *)
(* The binder of the i-th definition is the name 10 + i, which tells the   *)
(* definitions apart where their patterns are equal.                       *)
(***************************************************************************)
MaxDefs == 3

OverloadShapes == {"one", "zero", "num"}

\* `(n)`, `(n, 0)` and `(n, 1)` with the binder n of the i-th definition
OverloadPattern(shape, i) ==
    CASE shape = "one" -> PatGroup(<<PatName(10 + i)>>)
      [] shape = "zero" -> PatGroup(<<PatName(10 + i), PatNumber(0)>>)
      [] shape = "num" -> PatGroup(<<PatName(10 + i), PatNumber(1)>>)

OverloadBlocks ==
    {[i \in DOMAIN shapes |->
         PFunctionDef(FALSE, 2, OverloadPattern(shapes[i], i), <<PExprStmt(PVar(10 + i))>>)] :
        shapes \in SeqsUpTo(OverloadShapes, MaxDefs) \ SeqsUpTo(OverloadShapes, 1)}

OverloadTrees == OverloadBlocks \cup {<<PScope(b)>> : b \in OverloadBlocks}

InitOverload ==
    /\ tree \in OverloadTrees
    /\ this = FileConversion_new
    /\ lpc = "start"
    /\ file = File_new /\ issued = {} /\ src = <<>> /\ res = <<>> /\ ppc = "idle"

SpecOverload == InitOverload /\ [][NextLower]_vars

\* The definitions of the tree, in source order.
OverloadDefs == IF tree[1].kind = "Scope" THEN tree[1].block ELSE tree

\* The scope of the block that holds the definitions.
OverloadOwner == IF tree[1].kind = "Scope" THEN 1 ELSE this.file.root_scope

\* The first definition in the source whose pattern equals the key.
FirstDef(key) ==
    OverloadDefs[CHOOSE j \in DOMAIN OverloadDefs :
                    /\ Pattern_eq(OverloadDefs[j].pattern, key)
                    /\ \A k \in 1..(j - 1) : ~Pattern_eq(OverloadDefs[k].pattern, key)]

\* C25: the queued definitions are lowered last-in-first-out, every one
\* gets a FunctionDef in file.functions, and functions[name] maps each
\* pattern to the FunctionIndex of the first definition in the source that
\* has an equal pattern.
C25_EarliestDuplicateWins ==
    lpc = "done" =>
        LET f == this.file
            n == Len(OverloadDefs)
            table == f.scopes[OverloadOwner + 1].functions[2]
        IN  /\ Len(f.functions) = n
            /\ \A i \in 1..n : f.functions[i].pattern = OverloadDefs[n + 1 - i].pattern
            /\ \A d \in Range(OverloadDefs) : HashMap_find(table, d.pattern) # {}
            /\ \A e \in Range(table) :
                  /\ InBounds(e.value, f.functions)
                  /\ f.functions[e.value + 1].pattern = FirstDef(e.key).pattern

\* Three definitions, the first and the last with equal patterns, were
\* lowered: the table has two keys.
C25_Witness ==
    /\ lpc = "done"
    /\ Len(OverloadDefs) = 3
    /\ Pattern_eq(OverloadDefs[1].pattern, OverloadDefs[3].pattern)
    /\ ~Pattern_eq(OverloadDefs[1].pattern, OverloadDefs[2].pattern)
    /\ Len(this.file.scopes[OverloadOwner + 1].functions[2]) = 2

(***************************************************************************)
(* Specification SpecScopes: convert_parse_tree on trees whose blocks bind *)
(* names of their own: the root binds 0 and 1, and the blocks of the       *)
(* statement at position i bind 10 * i and 10 * i + 1.                     *)
(***************************************************************************)
MaxStmts == 3

ScopeShapes == {"let", "letmut", "let1", "scope", "if", "cond", "func"}

\* The statement of a shape; b is the first name of its blocks.
ShapeStmt(shape, b) ==
    CASE shape = "let" -> PVarDef(FALSE, 0, None)
      [] shape = "letmut" -> PVarDef(TRUE, 0, Some(PNumber(1)))
      [] shape = "let1" -> PVarDef(FALSE, 1, None)
      [] shape = "scope" ->
            PScope(<<PVarDef(FALSE, b, None), PVarDef(TRUE, b, None),
                     PScope(<<PVarDef(FALSE, b + 1, None)>>),
                     PVarDef(FALSE, b, Some(PVar(b)))>>)
      [] shape = "if" ->
            PIfElse(PVar(0), <<PVarDef(FALSE, b, None)>>,
                    Some(<<PVarDef(TRUE, b + 1, None), PVarDef(FALSE, b + 1, None)>>))
      [] shape = "cond" ->
            PConditional(<<PVar(0), PVar(1)>>,
                         <<PActScope(<<PVarDef(FALSE, b, None), PVarDef(FALSE, b, None)>>),
                           PActExpr(PVar(0))>>)
      [] shape = "func" ->
            PFunctionDef(FALSE, 9, PatGroup(<<>>),
                         <<PVarDef(FALSE, b, None),
                           PFunctionDef(TRUE, 9, PatGroup(<<PatName(0)>>),
                                        <<PVarDef(TRUE, b + 1, None)>>),
                           PVarDef(TRUE, b, None)>>)

ScopeTrees ==
    {[i \in DOMAIN shapes |-> ShapeStmt(shapes[i], 10 * i)] :
        shapes \in SeqsUpTo(ScopeShapes, MaxStmts)}

InitScopes ==
    /\ tree \in ScopeTrees
    /\ this = FileConversion_new
    /\ lpc = "start"
    /\ file = File_new /\ issued = {} /\ src = <<>> /\ res = <<>> /\ ppc = "idle"

SpecScopes == InitScopes /\ [][NextLower]_vars

\* The blocks a statement of the parse tree holds.
PStmtBlocks(s) ==
    CASE s.kind \in {"FunctionDef", "Scope"} -> {s.block}
      [] s.kind = "IfElse" -> {s.block} \cup Range(s.default)
      [] s.kind = "Conditional" ->
            {a.block : a \in {x \in Range(s.actions) : x.kind = "Scope"}}
      [] OTHER -> {}

RECURSIVE BlocksOf(_)
\* The block and every block nested in it.
BlocksOf(block) ==
    {block} \cup UNION {UNION {BlocksOf(b) : b \in PStmtBlocks(block[i])} :
                           i \in DOMAIN block}

\* The `let n` statements that are direct statements of the block, in order.
DirectLets(block, n) ==
    SelectSeq(block, LAMBDA s : s.kind = "VarDef" /\ s.name = n)

LetNames(block) == {block[i].name : i \in {j \in DOMAIN block : block[j].kind = "VarDef"}}

\* scopes[s].vars lists, for each name, one VarIndex per direct `let` of
\* the block, in source order, each belonging to s.
ScopeRegisters(f, s, block) ==
    /\ DOMAIN f.scopes[s + 1].vars = LetNames(block)
    /\ \A n \in LetNames(block) :
          LET list == f.scopes[s + 1].vars[n]
              lets == DirectLets(block, n)
          IN  /\ Len(list) = Len(lets)
              /\ \A i \in DOMAIN list :
                    /\ InBounds(list[i], f.vars)
                    /\ f.vars[list[i] + 1].in_scope = s
                    /\ f.vars[list[i] + 1].name = n
                    /\ f.vars[list[i] + 1].mutable = lets[i].mutable
                    /\ f.vars[list[i] + 1].init = None <=> lets[i].data = None
                    /\ i > 1 => list[i - 1] < list[i]

\* C14: after lowering, each block of the tree has its own scope whose vars
\* table lists exactly the VarIndex of the block's direct `let` statements,
\* in source order and strictly increasing, each with in_scope the scope;
\* a nested block's bindings are in no other scope's table.
C14_ScopeRegistration ==
    lpc = "done" =>
        LET f == this.file
        IN  /\ Len(f.scopes) = Cardinality(BlocksOf(tree))
            /\ \A block \in BlocksOf(tree) :
                  Cardinality({s \in 0..(Len(f.scopes) - 1) :
                                  ScopeRegisters(f, s, block)}) = 1
            /\ ScopeRegisters(f, f.root_scope, tree)

\* A root with bindings and three nested constructs was lowered.
C14_Witness ==
    /\ lpc = "done"
    /\ Len(tree) = 3
    /\ tree[1].kind = "VarDef" /\ tree[2].kind = "FunctionDef" /\ tree[3].kind = "IfElse"
    /\ Len(this.file.scopes) = 5
    /\ Len(this.file.vars) = 7

(***************************************************************************)
(* lexer.rs: the token rules.  A source text is the sequence of its        *)
(* characters.  logos returns the longest match at each position and, for  *)
(* two matches of the same length, the literal rather than the regex.      *)
(***************************************************************************)
Lower ==
    {"a", "b", "c", "d", "e", "f", "g", "h", "i", "j", "k", "l", "m",
     "n", "o", "p", "q", "r", "s", "t", "u", "v", "w", "x", "y", "z"}

Upper ==
    {"A", "B", "C", "D", "E", "F", "G", "H", "I", "J", "K", "L", "M",
     "N", "O", "P", "Q", "R", "S", "T", "U", "V", "W", "X", "Y", "Z"}

Digit == {"0", "1", "2", "3", "4", "5", "6", "7", "8", "9"}

\* [A-Za-z_]
WordStart == Lower \cup Upper \cup {"_"}

\* [A-Za-z0-9_]
WordChar == WordStart \cup Digit

\* [0-9_]
NumberChar == Digit \cup {"_"}

\* [ \t]
Blank == {" ", "\t"}

\* [\n\r]
LineEnd == {"\n", "\r"}

Token(kind) == [t |-> kind]

Token_Keyword(k) == [t |-> "Keyword", k |-> k]

Token_Word(w) == [t |-> "Word", s |-> w]

Token_Number(w) == [t |-> "Number", s |-> w]

Token_String(w) == [t |-> "String", s |-> w]

Token_Whitespace(n) == [t |-> "Whitespace", n |-> n]

EOF == Token("EOF")

\* The #[token("...")] keyword literals.
KeywordTable ==
    {<<<<"l", "e", "t">>, "Let">>, <<<<"m", "u", "t">>, "Mut">>,
     <<<<"s", "e", "t">>, "Set">>, <<<<"f", "u", "n", "c">>, "Func">>,
     <<<<"p", "r", "o", "c">>, "Proc">>, <<<<"t", "y", "p", "e">>, "Type">>,
     <<<<"d", "i", "s", "o", "w", "n">>, "Disown">>,
     <<<<"s", "c", "o", "p", "e">>, "Scope">>, <<<<"i", "f">>, "If">>,
     <<<<"e", "l", "s", "e">>, "Else">>, <<<<"c", "o", "n", "d">>, "Cond">>,
     <<<<"a", "n", "d">>, "And">>, <<<<"o", "r">>, "Or">>,
     <<<<"r", "e", "t", "u", "r", "n">>, "Return">>}

\* The one-character punctuation and operator literals.
PunctTable ==
    {<<"{", "CurlyStart">>, <<"}", "CurlyEnd">>, <<"[", "SquareStart">>,
     <<"]", "SquareEnd">>, <<"(", "ParenStart">>, <<")", "ParenEnd">>,
     <<"~", "Tilde">>, <<";", "Semicolon">>, <<"+", "Add">>, <<"-", "Sub">>,
     <<"*", "Mul">>, <<"/", "Div">>, <<"&", "And">>, <<"|", "Or">>,
     <<"^", "Xor">>, <<".", "FieldIndex">>, <<"=", "Assign">>, <<"!", "Not">>,
     <<"<", "Less">>, <<">", "Greater">>}

\* The two-character literals, which win over their one-character prefix.
Punct2Table ==
    {<<<<"=", "=">>, "Equal">>, <<<<"=", ">">>, "FatArrow">>,
     <<<<"!", "=">>, "NotEqual">>, <<<<"<", "=">>, "LessEqual">>,
     <<<<">", "=">>, "GreaterEqual">>}

\* The character at position i, or "" past the end of the text.
char_at(s, i) == IF i \in DOMAIN s THEN s[i] ELSE ""

RECURSIVE run_len(_, _, _)
\* Length of the longest run of characters of class C starting at i.
run_len(s, i, C) ==
    IF i \in DOMAIN s /\ s[i] \in C THEN 1 + run_len(s, i + 1, C) ELSE 0

RECURSIVE run_len_until(_, _, _)
\* Length of the longest run of characters other than stop starting at i.
run_len_until(s, i, stop) ==
    IF i \in DOMAIN s /\ s[i] # stop THEN 1 + run_len_until(s, i + 1, stop) ELSE 0

\* A match: its length and the token it yields (None for a skip).
Lexeme(n, tok) == [len |-> n, tok |-> tok]

\* Keyword literal or [A-Za-z_][A-Za-z0-9_]*
lex_word(w) ==
    IF \E e \in KeywordTable : e[1] = w
    THEN Token_Keyword((CHOOSE e \in KeywordTable : e[1] = w)[2])
    ELSE Token_Word(w)

\* A match that starts with k >= 0 blanks at i: the comment skip
\* [ \t]*//[^\n]*, Newline [ \t]*[\n\r]+ or Whitespace [ \t]+.
lex_blank(s, i, k) ==
    IF char_at(s, i + k) = "/" /\ char_at(s, i + k + 1) = "/"
    THEN Lexeme(k + 2 + run_len_until(s, i + k + 2, "\n"), None)
    ELSE IF char_at(s, i + k) \in LineEnd
    THEN Lexeme(k + run_len(s, i + k, LineEnd), Some(Token("Newline")))
    ELSE Lexeme(k, Some(Token_Whitespace(k)))

\* "\"[^\"]*\""
lex_string(s, i, n) ==
    IF char_at(s, i + 1 + n) = "\""
    THEN Lexeme(n + 2, Some(Token_String(SubSeq(s, i, i + n + 1))))
    ELSE Lexeme(1, Some(Token("Error")))

\* The longest match at position i.
lex_one(s, i) ==
    CASE s[i] \in Blank -> lex_blank(s, i, run_len(s, i, Blank))
      [] s[i] = "/" /\ char_at(s, i + 1) = "/" -> lex_blank(s, i, 0)
      [] s[i] = "\r" /\ char_at(s, i + 1) \notin LineEnd -> Lexeme(1, None)
      [] s[i] \in LineEnd /\ ~(s[i] = "\r" /\ char_at(s, i + 1) \notin LineEnd) ->
            lex_blank(s, i, 0)
      [] s[i] = "," ->
            Lexeme(1 + run_len(s, i + 1, Blank \cup LineEnd), Some(Token("Comma")))
      [] s[i] = "\"" -> lex_string(s, i, run_len_until(s, i + 1, "\""))
      [] s[i] \in WordStart ->
            Lexeme(run_len(s, i, WordChar),
                   Some(lex_word(SubSeq(s, i, i + run_len(s, i, WordChar) - 1))))
      [] s[i] \in Digit ->
            Lexeme(run_len(s, i, NumberChar),
                   Some(Token_Number(SubSeq(s, i, i + run_len(s, i, NumberChar) - 1))))
      [] \E e \in Punct2Table : e[1] = <<s[i], char_at(s, i + 1)>> ->
            Lexeme(2, Some(Token((CHOOSE e \in Punct2Table :
                                     e[1] = <<s[i], char_at(s, i + 1)>>)[2])))
      [] OTHER ->
            IF \E e \in PunctTable : e[1] = s[i]
            THEN Lexeme(1, Some(Token((CHOOSE e \in PunctTable : e[1] = s[i])[2])))
            ELSE Lexeme(1, Some(Token("Error")))

RECURSIVE lexer(_, _)
\* Token::lexer(source): the tokens from position i on.
lexer(s, i) ==
    IF i > Len(s) THEN <<>>
    ELSE Bind(lex_one(s, i), LAMBDA m : m.tok \o lexer(s, i + m.len))

(***************************************************************************)
(* parser/mod.rs: the parser.  A Parser p is the token stream with the     *)
(* position of the lookahead, the indent stack and the interner.  A        *)
(* ParseResult carries the parser it leaves behind.                        *)
(***************************************************************************)
Parser_new(source) ==
    [toks |-> lexer(source, 1), pos |-> 1, ws_stack |-> <<>>, interner |-> <<>>]

Ok(p, v) == [ok |-> TRUE, p |-> p, val |-> v, err |-> ""]

\* The backquotes of the source's messages are written as apostrophes.
error(p, msg) == [ok |-> FALSE, p |-> p, val |-> <<>>, err |-> msg]

\* `*self.ws_stack.last()` on an empty stack
Stack_panic(p) == error(p, "panic")

\* `r?; body`: r is evaluated first and an Err is returned as it is.
Try(v, Op(_)) == CHOOSE r \in {IF x.ok THEN Op(x) ELSE x : x \in {v}} : TRUE

\* self.peek(i): the lexer yields EOF for ever at the end of the input
peek(p, i) == IF p.pos + i \in DOMAIN p.toks THEN p.toks[p.pos + i] ELSE EOF

\* The parser after self.next(); the token taken is peek(p, 0).
next(p) == [p EXCEPT !.pos = IF @ \in DOMAIN p.toks THEN @ + 1 ELSE @]

Stack_last(p) == p.ws_stack[Len(p.ws_stack)]

Stack_push(p, amt) == [p EXCEPT !.ws_stack = Append(@, amt)]

Stack_pop(p) ==
    [p EXCEPT !.ws_stack = IF @ = <<>> THEN @ ELSE SubSeq(@, 1, Len(@) - 1)]

\* try_indent taking any indent of at least amt.
try_indent_lax(p, amt) ==
    IF peek(p, 0).t = "Whitespace"
    THEN IF peek(p, 0).n >= amt THEN Ok(next(p), <<>>)
         ELSE error(p, "Insufficient indentation")
    ELSE error(p, "Not whitespace")

\* try_indent taking an indent of any count.
try_indent_any(p, amt) ==
    IF peek(p, 0).t = "Whitespace" THEN Ok(next(p), <<>>)
    ELSE error(p, "Not whitespace")

try_indent(p, amt) ==
    IF peek(p, 0).t = "Whitespace"
    THEN IF peek(p, 0).n = amt THEN Ok(next(p), <<>>)
         ELSE error(p, "Insufficient indentation")
    ELSE error(p, "Not whitespace")

RECURSIVE skip_ws(_)
skip_ws(p) == IF peek(p, 0).t = "Whitespace" THEN skip_ws(next(p)) ELSE p

RECURSIVE skip_nl(_)
skip_nl(p) == IF peek(p, 0).t = "Newline" THEN skip_nl(next(p)) ELSE p

ws(p) ==
    IF peek(p, 0).t = "Whitespace" THEN Ok(skip_ws(next(p)), <<>>)
    ELSE error(next(p), "Expected whitespace")

eol(p) ==
    IF peek(p, 0).t \in {"Newline", "Semicolon", "EOF"}
    THEN Ok(skip_nl(next(p)), <<>>)
    ELSE error(skip_nl(p), "Expected ';' or EOL")

match_token(p, t) ==
    IF peek(p, 0) = t THEN Ok(next(p), <<>>) ELSE error(next(p), "Unexpected token")

\* Returns the bool as the value of an Ok.
try_match(p, t) == IF peek(p, 0) = t THEN Ok(next(p), TRUE) ELSE Ok(p, FALSE)

\* An intern that appends without looking the string up.
intern_append(p, w) == Ok([p EXCEPT !.interner = Append(@, w)], Len(p.interner))

\* StringInterner::intern: IndexSet::insert_full(s).0
intern(p, w) ==
    IF w \in Range(p.interner)
    THEN Ok(p, (CHOOSE i \in DOMAIN p.interner : p.interner[i] = w) - 1)
    ELSE Ok([p EXCEPT !.interner = Append(@, w)], Len(p.interner))

\* StringInterner::get_index: IndexSet::get_index_of(s)
get_index(p, w) ==
    IF w \in Range(p.interner)
    THEN Ok(p, Some((CHOOSE i \in DOMAIN p.interner : p.interner[i] = w) - 1))
    ELSE Ok(p, None)

\* StringInterner::get_string: IndexSet::get_index(i).expect("Invalid index!")
get_string(p, i) ==
    IF i + 1 \in DOMAIN p.interner THEN Ok(p, p.interner[i + 1])
    ELSE error(p, "panic")

intern_string(p, s) == intern(p, SubSeq(s, 2, Len(s) - 1))

word(p) ==
    IF peek(p, 0).t = "Word" THEN intern(next(p), peek(p, 0).s)
    ELSE error(next(p), "Expected word")

RECURSIVE decimal(_)
\* The value of a string of digits.
decimal(digits) ==
    IF digits = <<>> THEN 0
    ELSE 10 * decimal(SubSeq(digits, 1, Len(digits) - 1))
         + (CHOOSE d \in 0..9 : ToString(d) = digits[Len(digits)])

\* num_str.parse::<i64>(): a literal of the lexer has no sign, so it is
\* accepted when it is all digits; the literals here are far below 2^63.
parse_num(p, num_str) ==
    IF Range(num_str) \subseteq Digit THEN Ok(p, decimal(num_str))
    ELSE error(p, "Error parsing number")

is_token_expr_start(token) ==
    token.t \in {"Word", "Number", "String", "Mul", "And", "ParenStart"}

postfix_prec(token) == IF token.t = "FieldIndex" THEN Some(<<8, 9>>) ELSE None

\* The table with the levels of + - and * / exchanged.
infix_prec_swapped(token) ==
    CASE token \in {Token_Keyword("And"), Token_Keyword("Or")} -> Some(<<0, 1>>)
      [] token.t \in {"Equal", "NotEqual", "Less", "LessEqual", "Greater",
                      "GreaterEqual"} -> Some(<<2, 3>>)
      [] token.t = "Whitespace" -> Some(<<5, 4>>)
      [] token.t \in {"Add", "Sub"} -> Some(<<8, 9>>)
      [] token.t \in {"Mul", "Div"} -> Some(<<6, 7>>)
      [] token.t \in {"And", "Or", "Xor"} -> Some(<<10, 11>>)
      [] OTHER -> None

infix_prec(token) ==
    CASE token \in {Token_Keyword("And"), Token_Keyword("Or")} -> Some(<<0, 1>>)
      [] token.t \in {"Equal", "NotEqual", "Less", "LessEqual", "Greater",
                      "GreaterEqual"} -> Some(<<2, 3>>)
      [] token.t = "Whitespace" -> Some(<<5, 4>>)
      [] token.t \in {"Add", "Sub"} -> Some(<<6, 7>>)
      [] token.t \in {"Mul", "Div"} -> Some(<<8, 9>>)
      [] token.t \in {"And", "Or", "Xor"} -> Some(<<10, 11>>)
      [] OTHER -> None

infix_op(token) ==
    CASE token = Token_Keyword("And") -> "LogicAnd"
      [] token = Token_Keyword("Or") -> "LogicOr"
      [] token.t = "Whitespace" -> "Apply"
      [] OTHER -> token.t

RECURSIVE parse_pattern(_)
RECURSIVE parse_pattern_loop(_, _)
\* The `loop` of the ParenStart arm of parse_pattern.
parse_pattern_loop(p, items) ==
    IF peek(skip_ws(p), 0).t = "ParenEnd" THEN Ok(next(skip_ws(p)), PatGroup(items))
    ELSE Try(parse_pattern(skip_ws(p)), LAMBDA item :
         Bind(skip_ws(item.p), LAMBDA p1 :
             CASE peek(p1, 0).t = "ParenEnd" ->
                    Ok(next(p1), PatGroup(Append(items, item.val)))
               [] peek(p1, 0).t = "Comma" ->
                    parse_pattern_loop(next(p1), Append(items, item.val))
               [] OTHER -> error(next(p1), "Expected ')' or ',' in pattern")))

parse_pattern(p) ==
    CASE peek(p, 0).t = "ParenStart" -> parse_pattern_loop(next(p), <<>>)
      [] peek(p, 0) = Token_Word(<<"N", "o", "n", "e">>) -> Ok(next(p), PatNone)
      [] peek(p, 0).t = "Word" /\ peek(p, 0) # Token_Word(<<"N", "o", "n", "e">>) ->
            Try(intern(next(p), peek(p, 0).s), LAMBDA w : Ok(w.p, PatName(w.val)))
      [] peek(p, 0).t = "Number" ->
            Try(parse_num(next(p), peek(p, 0).s), LAMBDA n : Ok(n.p, PatNumber(n.val)))
      [] OTHER -> error(next(p), "Unexpected token in pattern")

parse_expr_terminal(p) ==
    CASE peek(p, 0).t = "Number" ->
            Try(parse_num(next(p), peek(p, 0).s), LAMBDA n : Ok(n.p, PNumber(n.val)))
      [] peek(p, 0) = Token_Word(<<"N", "o", "n", "e">>) -> Ok(next(p), PNoneExpr)
      [] peek(p, 0).t = "Word" /\ peek(p, 0) # Token_Word(<<"N", "o", "n", "e">>) ->
            Try(intern(next(p), peek(p, 0).s), LAMBDA w : Ok(w.p, PVar(w.val)))
      [] peek(p, 0).t = "String" ->
            Try(intern_string(next(p), peek(p, 0).s), LAMBDA w : Ok(w.p, PString(w.val)))
      [] OTHER -> error(next(p), "Expected 'expr'")

\* `match &mut ret` in the ParenStart arm: the item joins the tuple that ret
\* already is, or makes a tuple with ret, or becomes ret.
group_push(ret, item) ==
    IF ret = None THEN Some(item)
    ELSE IF ret[1].kind = "Group" THEN Some(PGroup(Append(ret[1].items, item)))
    ELSE Some(PGroup(<<ret[1], item>>))

\* The operator the infix loop looks at: brk when the loop breaks before
\* the precedence test, else the parser (after the skip_ws of the
\* operator-after-whitespace case) and the pair (l_prec, r_prec).
infix_peek(p) ==
    IF peek(p, 0).t = "Whitespace"
    THEN IF infix_prec(peek(p, 1)) # None
         THEN [brk |-> FALSE, p |-> skip_ws(p), prec |-> infix_prec(peek(p, 1))[1]]
         ELSE IF is_token_expr_start(peek(p, 1))
         THEN [brk |-> FALSE, p |-> p, prec |-> infix_prec(Token_Whitespace(0))[1]]
         ELSE [brk |-> TRUE, p |-> p, prec |-> <<0, 0>>]
    ELSE IF infix_prec(peek(p, 0)) # None
         THEN [brk |-> FALSE, p |-> p, prec |-> infix_prec(peek(p, 0))[1]]
         ELSE [brk |-> TRUE, p |-> p, prec |-> <<0, 0>>]

RECURSIVE parse_expr(_, _)
RECURSIVE parse_group_loop(_, _)
RECURSIVE infix_loop(_, _, _)
RECURSIVE postfix_loop(_, _, _)
\* The `loop` of the ParenStart arm of parse_expr; the value is `ret`.
parse_group_loop(p, ret) ==
    IF peek(skip_ws(p), 0).t = "ParenEnd" THEN Ok(next(skip_ws(p)), ret)
    ELSE Try(parse_expr(skip_ws(p), 0), LAMBDA item :
             CASE peek(item.p, 0).t = "Comma" ->
                    parse_group_loop(next(item.p), group_push(ret, item.val))
               [] peek(item.p, 0).t = "ParenEnd" ->
                    Ok(next(item.p), group_push(ret, item.val))
               [] OTHER -> error(next(item.p), "Expected ',' or ')' in group"))

\* A postfix loop that goes back to the infix loop after a field access.
postfix_loop_reenter(p, ret, min_prec) ==
    IF postfix_prec(peek(p, 0)) # None /\ postfix_prec(peek(p, 0))[1][1] >= min_prec
    THEN Try(word(next(p)), LAMBDA name :
             infix_loop(name.p, PField(ret, name.val), min_prec))
    ELSE Ok(p, ret)

\* The `while let Some(..) = postfix_prec(..)` loop; FieldIndex is the only
\* postfix operator.
postfix_loop(p, ret, min_prec) ==
    IF postfix_prec(peek(p, 0)) # None /\ postfix_prec(peek(p, 0))[1][1] >= min_prec
    THEN Try(word(next(p)), LAMBDA name :
             postfix_loop(name.p, PField(ret, name.val), min_prec))
    ELSE Ok(p, ret)

\* The infix `loop` of parse_expr, followed by the postfix loop.
infix_loop(p, ret, min_prec) ==
    Bind(infix_peek(p), LAMBDA op :
        IF op.brk \/ op.prec[1] < min_prec THEN postfix_loop(op.p, ret, min_prec)
        ELSE Try(parse_expr(skip_ws(next(op.p)), op.prec[2]), LAMBDA right :
                 infix_loop(right.p,
                            POperation(ret, right.val, infix_op(peek(op.p, 0))),
                            min_prec)))

\* A prefix phase whose `*` and `&` take only the next operand: the floor 12
\* is above every infix and postfix operator.
parse_expr_prefix_tight(p, min_prec) ==
    CASE peek(p, 0).t = "Mul" ->
            Try(parse_expr(next(p), 12), LAMBDA inner :
                Ok(inner.p, PDeref(inner.val)))
      [] peek(p, 0).t = "And" ->
            Try(parse_expr(next(p), 12), LAMBDA inner :
                Ok(inner.p, PBorrow(inner.val)))
      [] peek(p, 0).t = "ParenStart" ->
            Try(parse_group_loop(next(p), None), LAMBDA ret :
                Ok(ret.p, IF ret.val = None THEN PGroup(<<>>) ELSE ret.val[1]))
      [] OTHER -> parse_expr_terminal(p)

\* The prefix phase of parse_expr.
parse_expr_prefix(p, min_prec) ==
    CASE peek(p, 0).t = "Mul" ->
            Try(parse_expr(next(p), min_prec), LAMBDA inner :
                Ok(inner.p, PDeref(inner.val)))
      [] peek(p, 0).t = "And" ->
            Try(parse_expr(next(p), min_prec), LAMBDA inner :
                Ok(inner.p, PBorrow(inner.val)))
      [] peek(p, 0).t = "ParenStart" ->
            Try(parse_group_loop(next(p), None), LAMBDA ret :
                Ok(ret.p, IF ret.val = None THEN PGroup(<<>>) ELSE ret.val[1]))
      [] OTHER -> parse_expr_terminal(p)

parse_expr(p, min_prec) ==
    Try(parse_expr_prefix(p, min_prec), LAMBDA ret :
        infix_loop(ret.p, ret.val, min_prec))

parse_return(p) ==
    Try(match_token(p, Token_Keyword("Return")), LAMBDA kw :
    Try(ws(kw.p), LAMBDA sp :
        IF peek(sp.p, 0) = Token("Newline") THEN Ok(next(sp.p), PReturn(None))
        ELSE Try(parse_expr(sp.p, 0), LAMBDA e : Ok(e.p, PReturn(Some(e.val))))))

parse_disown(p) ==
    Try(match_token(p, Token_Keyword("Disown")), LAMBDA kw :
    Try(ws(kw.p), LAMBDA sp :
    Try(parse_expr(sp.p, 0), LAMBDA expr :
    Try(eol(expr.p), LAMBDA end : Ok(end.p, PDisown(expr.val))))))

\* `if self.try_match(Token::Assign) { skip_ws; Some(parse_expr(0)?) } else
\* { None }` of parse_var_def
parse_var_def_data(p) ==
    IF peek(p, 0) = Token("Assign")
    THEN Try(parse_expr(skip_ws(next(p)), 0), LAMBDA e : Ok(e.p, Some(e.val)))
    ELSE Ok(p, None)

parse_var_def(p) ==
    Try(match_token(p, Token_Keyword("Let")), LAMBDA kw :
    Try(ws(kw.p), LAMBDA sp :
    Bind(try_match(sp.p, Token_Keyword("Mut")), LAMBDA mutable :
    Try(IF mutable.val THEN ws(mutable.p) ELSE Ok(mutable.p, <<>>), LAMBDA sp2 :
    Try(word(sp2.p), LAMBDA name :
    Try(parse_var_def_data(skip_ws(name.p)), LAMBDA data :
    Try(eol(data.p), LAMBDA end :
        Ok(end.p, PVarDef(mutable.val, name.val, data.val)))))))))

parse_var_set(p) ==
    Try(match_token(p, Token_Keyword("Set")), LAMBDA kw :
    Try(ws(kw.p), LAMBDA sp :
    Try(word(sp.p), LAMBDA name :
    Try(match_token(skip_ws(name.p), Token("Assign")), LAMBDA eq :
    Try(parse_expr(skip_ws(eq.p), 0), LAMBDA data :
    Try(eol(data.p), LAMBDA end : Ok(end.p, PVarSet(name.val, data.val))))))))

RECURSIVE parse_stmt(_)
RECURSIVE parse_block_loop(_, _, _)
RECURSIVE parse_cond_loop(_, _, _, _)
\* One pass of the `while` of parse_block once the line's indent is taken.
parse_block_stmt(p, stmts, indent) ==
    Try(parse_stmt(p), LAMBDA stmt :
        parse_block_loop(stmt.p, Append(stmts, stmt.val), indent))

\* The `while self.peek(0) != Token::EOF` of parse_block and the pop that
\* follows it; indent is 0 until the first line fixed it.
parse_block_loop(p, stmts, indent) ==
    IF peek(p, 0) = EOF THEN Ok(Stack_pop(p), stmts)
    ELSE Bind(skip_nl(p), LAMBDA p1 :
        IF indent = 0
        THEN IF p1.ws_stack = <<>> THEN Stack_panic(p1)
             ELSE IF peek(p1, 0).t = "Whitespace" /\ peek(p1, 0).n > Stack_last(p1)
             THEN parse_block_stmt(Stack_push(next(p1), peek(p1, 0).n), stmts,
                                   peek(p1, 0).n)
             ELSE error(next(p1), "Expected indented block")
        ELSE IF try_indent(p1, indent).ok
             THEN parse_block_stmt(try_indent(p1, indent).p, stmts, indent)
             ELSE Ok(Stack_pop(p1), stmts))

parse_block(p) == parse_block_loop(p, <<>>, 0)

parse_scope(p) ==
    Try(match_token(p, Token_Keyword("Scope")), LAMBDA kw :
    Try(match_token(skip_ws(kw.p), Token("Newline")), LAMBDA nl :
    Try(parse_block(skip_nl(nl.p)), LAMBDA block : Ok(block.p, PScope(block.val)))))

\* parse_stmt reaches parse_function with Keyword(Proc) or Keyword(Func).
parse_function(p) ==
    Try(ws(next(p)), LAMBDA sp :
    Try(word(sp.p), LAMBDA name :
    Try(parse_pattern(skip_ws(name.p)), LAMBDA pattern :
    Try(match_token(pattern.p, Token("Newline")), LAMBDA nl :
    Try(parse_block(skip_nl(nl.p)), LAMBDA block :
        Ok(block.p, PFunctionDef(peek(p, 0) = Token_Keyword("Proc"), name.val,
                                 pattern.val, block.val)))))))

\* The `else` part of parse_if_else, after the block of the `if`.
parse_else(p) ==
    IF p.ws_stack = <<>> THEN Stack_panic(p)
    ELSE IF /\ peek(p, 0).t = "Whitespace"
            /\ peek(p, 1) = Token_Keyword("Else")
            /\ peek(p, 0).n = Stack_last(p)
    THEN Try(match_token(next(next(p)), Token("Newline")), LAMBDA nl :
         Try(parse_block(skip_nl(nl.p)), LAMBDA block : Ok(block.p, Some(block.val))))
    ELSE Ok(p, None)

parse_if_else(p) ==
    Try(match_token(p, Token_Keyword("If")), LAMBDA kw :
    Try(ws(kw.p), LAMBDA sp :
    Try(parse_expr(sp.p, 0), LAMBDA condition :
    Try(match_token(condition.p, Token("Newline")), LAMBDA nl :
    Try(parse_block(skip_nl(nl.p)), LAMBDA block :
    Try(parse_else(block.p), LAMBDA default :
        Ok(default.p, PIfElse(condition.val, block.val, default.val))))))))

\* The action of one case of parse_cond, after the `=>` and skip_ws; the
\* value is the ConditionalAction.
parse_cond_action(p) ==
    IF peek(p, 0) = Token_Keyword("Scope")
    THEN Try(match_token(next(p), Token("Newline")), LAMBDA nl :
         Try(parse_block(skip_nl(nl.p)), LAMBDA block :
             Ok(block.p, PActScope(block.val))))
    ELSE Try(parse_expr(p, 0), LAMBDA e : Ok(skip_nl(e.p), PActExpr(e.val)))

\* The `loop` of parse_cond and the pop that follows it.
parse_cond_loop(p, indent, conditions, actions) ==
    IF peek(p, 0).t = "Whitespace" /\ peek(p, 0).n >= indent
    THEN IF peek(p, 0).n > indent THEN error(p, "Unexpected indent")
         ELSE Try(parse_expr(next(p), 0), LAMBDA condition :
              Try(match_token(skip_ws(condition.p), Token("FatArrow")), LAMBDA arrow :
              Try(parse_cond_action(skip_ws(arrow.p)), LAMBDA action :
                  parse_cond_loop(action.p, indent,
                                  Append(conditions, condition.val),
                                  Append(actions, action.val)))))
    ELSE Ok(Stack_pop(p), PConditional(conditions, actions))

\* parse_cond after `cond`, the newline and skip_nl.
parse_cond_indent(p) ==
    IF p.ws_stack = <<>> THEN Stack_panic(p)
    ELSE IF peek(p, 0).t # "Whitespace" THEN error(p, "Expected indent")
    ELSE IF peek(p, 0).n <= Stack_last(p) THEN error(p, "Expected indented block")
    ELSE parse_cond_loop(Stack_push(p, peek(p, 0).n), peek(p, 0).n, <<>>, <<>>)

parse_cond(p) ==
    Try(match_token(p, Token_Keyword("Cond")), LAMBDA kw :
    Try(match_token(kw.p, Token("Newline")), LAMBDA nl :
        parse_cond_indent(skip_nl(nl.p))))

parse_stmt_expr(p) ==
    Try(parse_expr(p, 0), LAMBDA ret :
    Try(eol(skip_ws(ret.p)), LAMBDA end : Ok(end.p, PExprStmt(ret.val))))

\* The `match self.peek(0)` of parse_stmt, after skip_nl.
parse_stmt_match(p) ==
    CASE peek(p, 0) = Token_Keyword("Set") -> parse_var_set(p)
      [] peek(p, 0) = Token_Keyword("Let") -> parse_var_def(p)
      [] peek(p, 0) \in {Token_Keyword("Proc"), Token_Keyword("Func")} ->
            parse_function(p)
      [] peek(p, 0) = Token_Keyword("Scope") -> parse_scope(p)
      [] peek(p, 0) = Token_Keyword("Disown") -> parse_disown(p)
      [] peek(p, 0) = Token_Keyword("If") -> parse_if_else(p)
      [] peek(p, 0) = Token_Keyword("Cond") -> parse_cond(p)
      [] peek(p, 0) = Token_Keyword("Return") -> parse_return(p)
      [] peek(p, 0).t = "Whitespace" -> error(p, "Internal error: Unexpected indent")
      [] OTHER -> parse_stmt_expr(p)

parse_stmt(p) == parse_stmt_match(skip_nl(p))

RECURSIVE parse_file_loop(_, _)
\* The `while self.peek(0) != Token::EOF` of parse_file.
parse_file_loop(p, stmts) ==
    IF peek(p, 0) = EOF THEN Ok(p, stmts)
    ELSE Try(parse_stmt(p), LAMBDA stmt :
             parse_file_loop(stmt.p, Append(stmts, stmt.val)))

parse_file(p) == parse_file_loop(Stack_push(p, 0), <<>>)

(***************************************************************************)
(* Specification SpecParse: main() on a bounded family of source texts:    *)
(* the text is parsed and, when the parse is Ok, its tree is lowered.      *)
(***************************************************************************)
MaxPrefix == 4

MaxLines == 3

Spaces(n) == [i \in 1..n |-> " "]

KeywordText(k) == (CHOOSE e \in KeywordTable : e[2] = k)[1]

InfixOps ==
    {"LogicAnd", "LogicOr", "Equal", "NotEqual", "Less", "LessEqual", "Greater",
     "GreaterEqual", "Add", "Sub", "Mul", "Div", "And", "Or", "Xor"}

\* The text the lexer turns into the token of the operator.
InfixOpText(op) ==
    CASE op = "LogicAnd" -> KeywordText("And")
      [] op = "LogicOr" -> KeywordText("Or")
      [] \E e \in Punct2Table : e[2] = op -> (CHOOSE e \in Punct2Table : e[2] = op)[1]
      [] OTHER -> <<(CHOOSE e \in PunctTable : e[2] = op)[1]>>

\* `a op1 b op2 c`
PrecText(op1, op2) ==
    <<"a", " ">> \o InfixOpText(op1) \o <<" ", "b", " ">> \o InfixOpText(op2)
    \o <<" ", "c">>

PrecSources == {PrecText(op1, op2) : op1, op2 \in InfixOps}

ApplyTerminals == {<<"f">>, <<"a">>, <<"7">>}

\* `t1 t2 t3`
ApplyText(t1, t2, t3) == t1 \o <<" ">> \o t2 \o <<" ">> \o t3

ApplySources == {ApplyText(t[1], t[2], t[3]) : t \in ApplyTerminals \X ApplyTerminals \X ApplyTerminals}

\* Prefix operators and blanks in front of `x`
PrefixSources == {pre \o <<"x">> : pre \in SeqsUpTo({"&", "*", " "}, MaxPrefix)}

LineIndents == {0, 1, 2, 3}

\* `scope`, `x`, `if x`, `else`, `cond`, `x => x`
LineBodies ==
    {KeywordText("Scope"), <<"x">>, KeywordText("If") \o <<" ", "x">>,
     KeywordText("Else"), KeywordText("Cond"), <<"x", " ", "=", ">", " ", "x">>}

Lines == {Spaces(n) \o b : n \in LineIndents, b \in LineBodies}

RECURSIVE JoinLines(_)
JoinLines(ls) ==
    IF Len(ls) = 0 THEN <<>>
    ELSE IF Len(ls) = 1 THEN ls[1]
    ELSE ls[1] \o <<"\n">> \o JoinLines(Tail(ls))

\* A line without indent followed by up to n lines at any indent.
LineTexts(n) == {JoinLines(<<h>> \o t) : h \in LineBodies, t \in SeqsUpTo(Lines, n)}

\* Up to MaxLines lines, each ended by its newline; the texts of one or two
\* lines also without the newline of the last line.
LineSources == {t \o <<"\n">> : t \in LineTexts(MaxLines - 1)} \cup LineTexts(1)

\* `if x\n    set y = 1\nelse\n    set y = 2` under a parent indent.
IfElseText(parent) ==
    JoinLines(<<Spaces(parent) \o KeywordText("If") \o <<" ", "x">>,
                Spaces(parent + 4) \o KeywordText("Set") \o <<" ", "y", " ", "=", " ", "1">>,
                Spaces(parent) \o KeywordText("Else"),
                Spaces(parent + 4) \o KeywordText("Set") \o <<" ", "y", " ", "=", " ", "2">>>>)

\* `scope` over the if/else at indent 2
NestedIfElseText == KeywordText("Scope") \o <<"\n">> \o IfElseText(2)

\* `let mut n = (1, "s")\nfunc f (n, 0)\n  proc g ()\n    disown n\n  return n.a\n`
FunctionText ==
    JoinLines(<<KeywordText("Let") \o <<" ">> \o KeywordText("Mut")
                    \o <<" ", "n", " ", "=", " ", "(", "1", ",", " ", "\"", "s", "\"", ")">>,
                KeywordText("Func") \o <<" ", "f", " ", "(", "n", ",", " ", "0", ")">>,
                Spaces(2) \o KeywordText("Proc") \o <<" ", "g", " ", "(", ")">>,
                Spaces(4) \o KeywordText("Disown") \o <<" ", "n">>,
                Spaces(2) \o KeywordText("Return") \o <<" ", "n", ".", "a">>,
                <<>>>>)

\* `cond\n  x => None\n  y => scope\n    set y = 1\nx\n`
CondText ==
    JoinLines(<<KeywordText("Cond"),
                Spaces(2) \o <<"x", " ", "=", ">", " ", "N", "o", "n", "e">>,
                Spaces(2) \o <<"y", " ", "=", ">", " ">> \o KeywordText("Scope"),
                Spaces(4) \o KeywordText("Set") \o <<" ", "y", " ", "=", " ", "1">>,
                <<"x">>,
                <<>>>>)

\* `scope\n  x\n\tx\n`: two spaces, then one tab
TabMixText ==
    JoinLines(<<KeywordText("Scope"), <<" ", " ", "x">>, <<"\t", "x">>, <<>>>>)

CuratedSources ==
    {<<>>, IfElseText(0), NestedIfElseText, FunctionText, CondText, TabMixText}

MaxNest == 2

\* The constructs that open a block: `scope`, `func x ()`, `if x`, and
\* `cond` with the case `x => scope`.
BlockOpeners == {"scope", "func", "if", "cond"}

\* The header lines of an opener whose first line is at indent L.
OpenerLines(k, L) ==
    CASE k = "scope" -> <<Spaces(L) \o KeywordText("Scope")>>
      [] k = "func" -> <<Spaces(L) \o KeywordText("Func") \o <<" ", "x", " ", "(", ")">>>>
      [] k = "if" -> <<Spaces(L) \o KeywordText("If") \o <<" ", "x">>>>
      [] k = "cond" -> <<Spaces(L) \o KeywordText("Cond"),
                         Spaces(L + 2) \o <<"x", " ", "=", ">", " ">> \o KeywordText("Scope")>>

\* The indent of the block of an opener at indent L.
BodyIndent(k, L) == IF k = "cond" THEN L + 4 ELSE L + 2

RECURSIVE NestLines(_, _)
\* The openers ks nested in each other from indent L, around the line `x`.
NestLines(ks, L) ==
    IF ks = <<>> THEN <<Spaces(L) \o <<"x">>>>
    ELSE OpenerLines(Head(ks), L) \o NestLines(Tail(ks), BodyIndent(Head(ks), L))

RECURSIVE CaseLevels(_, _)
\* The indents of the cases of the `cond`s of the nest.
CaseLevels(ks, L) ==
    IF ks = <<>> THEN {}
    ELSE (IF Head(ks) = "cond" THEN {L + 2} ELSE {})
         \cup CaseLevels(Tail(ks), BodyIndent(Head(ks), L))

RECURSIVE OpenLevels(_, _)
\* The indents on ws_stack at the line `x` of the nest, the innermost aside.
OpenLevels(ks, L) ==
    IF ks = <<>> THEN {}
    ELSE {L} \cup (IF Head(ks) = "cond" THEN {L + 2} ELSE {})
         \cup OpenLevels(Tail(ks), BodyIndent(Head(ks), L))

\* The nest followed by a line at the open level `to`: a case `x => x` at
\* the level of the cases of a `cond`, the statement `x` elsewhere.
DedentText(ks, to) ==
    JoinLines(NestLines(ks, 0)
              \o <<Spaces(to) \o (IF to \in CaseLevels(ks, 0)
                                  THEN <<"x", " ", "=", ">", " ", "x">>
                                  ELSE <<"x">>)>>)

Nests == SeqsUpTo(BlockOpeners, MaxNest) \ {<<>>}

DedentTable == {<<DedentText(ks, to), ks, to>> : ks \in Nests, to \in 0..(4 * MaxNest)}

\* Each text with and without the newline of its last line.
DedentSources ==
    UNION {{e[1], e[1] \o <<"\n">>} : e \in {d \in DedentTable : d[3] \in OpenLevels(d[2], 0)}}

\* Number literals [0-9][0-9_]* of up to three characters, and `1_000`.
NumberSources ==
    {<<d>> \o t : d \in {"0", "1"}, t \in SeqsUpTo({"0", "1", "_"}, 2)}
    \cup {<<"1", "_", "0", "0", "0">>}

\* `return` followed by the end of the line, with and without blanks
\* before the newline.
ReturnSources ==
    {KeywordText("Return") \o tail :
        tail \in {<<"\n">>, <<" ", "\n">>, <<" ", " ", "\n">>, <<"\t", "\n">>}}

MaxItems == 3

\* The items of a parenthesized list, `a`, `7`, `(a, b)` and `()`, with the
\* expressions they parse to (a is the first name of the text, b the second).
GroupItems ==
    {<<<<"a">>, PVar(0)>>,
     <<<<"7">>, PNumber(7)>>,
     <<<<"(", "a", ",", " ", "b", ")">>, PGroup(<<PVar(0), PVar(1)>>)>>,
     <<<<"(", ")">>, PGroup(<<>>)>>}

RECURSIVE JoinItems(_)
\* The texts of the items separated by `, `.
JoinItems(items) ==
    IF items = <<>> THEN <<>>
    ELSE IF Len(items) = 1 THEN items[1][1]
    ELSE items[1][1] \o <<",", " ">> \o JoinItems(Tail(items))

\* `(item, ..., item)`
GroupText(items) == <<"(">> \o JoinItems(items) \o <<")">>

GroupTable == {<<GroupText(items), items>> : items \in SeqsUpTo(GroupItems, MaxItems)}

GroupSources == {e[1] : e \in GroupTable}

\* `f` and a blank before each token that can start an expression, with the
\* operand the starter begins (f is name 0, the next name or string 1).
StarterTable ==
    {<<<<"f", " ", "x">>, PVar(1)>>,
     <<<<"f", " ", "7">>, PNumber(7)>>,
     <<<<"f", " ", "\"", "s", "\"">>, PString(1)>>,
     <<<<"f", " ", "*", "x">>, PDeref(PVar(1))>>,
     <<<<"f", " ", "&", "x">>, PBorrow(PVar(1))>>,
     <<<<"f", " ", "(", "x", ")">>, PVar(1)>>,
     <<<<"f", " ", "(", ")">>, PGroup(<<>>)>>}

StarterSources == {e[1] : e \in StarterTable}

PrefixOps == {"&", "*"}

\* `&a op b`
PrefixOpText(pre, op) ==
    <<pre, "a", " ">> \o InfixOpText(op) \o <<" ", "b">>

\* `a op1 &b op2 c`
PrefixInnerText(pre, op1, op2) ==
    <<"a", " ">> \o InfixOpText(op1) \o <<" ", pre, "b", " ">> \o InfixOpText(op2)
    \o <<" ", "c">>

PrefixOpTable == {<<PrefixOpText(pre, op), pre, op>> : pre \in PrefixOps, op \in InfixOps}

PrefixInnerTable ==
    {<<PrefixInnerText(pre, op1, op2), pre, op1, op2>> :
        pre \in PrefixOps, op1 \in InfixOps, op2 \in InfixOps}

\* `&f x`, `*f x`
PrefixApplySources == {<<pre, "f", " ", "x">> : pre \in PrefixOps}

PrefixOpSources ==
    {e[1] : e \in PrefixOpTable} \cup {e[1] : e \in PrefixInnerTable}
    \cup PrefixApplySources

\* `a.b op c`
FieldLeftText(op) == <<"a", ".", "b", " ">> \o InfixOpText(op) \o <<" ", "c">>

\* `a op b.c`
FieldRightText(op) == <<"a", " ">> \o InfixOpText(op) \o <<" ", "b", ".", "c">>

FieldLeftTable == {<<FieldLeftText(op), op>> : op \in InfixOps}

FieldRightTable == {<<FieldRightText(op), op>> : op \in InfixOps}

\* `a.b c`, `a.b.c`, `a.b`
FieldOnlySources ==
    {<<"a", ".", "b", " ", "c">>, <<"a", ".", "b", ".", "c">>, <<"a", ".", "b">>}

FieldSources ==
    {e[1] : e \in FieldLeftTable} \cup {e[1] : e \in FieldRightTable}
    \cup FieldOnlySources

Sources ==
    PrecSources \cup ApplySources \cup PrefixSources \cup LineSources
    \cup CuratedSources \cup DedentSources \cup NumberSources \cup ReturnSources
    \cup GroupSources \cup StarterSources \cup PrefixOpSources \cup FieldSources

InitParse ==
    /\ src \in Sources
    /\ res = <<>> /\ ppc = "start"
    /\ tree = <<>> /\ this = FileConversion_new /\ lpc = "idle"
    /\ file = File_new /\ issued = {}

\* let res = parser.parse_file()
ParseFile ==
    /\ ppc = "start"
    /\ res' = parse_file(Parser_new(src))
    /\ ppc' = "parsed"
    /\ UNCHANGED <<file, issued, tree, this, lpc, src>>

\* Ok(items) => convert_parse_tree(items)
ConvertParseTree ==
    /\ ppc = "parsed" /\ res.ok
    /\ tree' = res.val
    /\ lpc' = "start"
    /\ ppc' = "lowering"
    /\ UNCHANGED <<file, issued, this, src, res>>

NextParse == ParseFile \/ ConvertParseTree \/ ConvertRoot \/ ConvertPop \/ ConvertReturn

SpecParse == InitParse /\ [][NextParse]_vars

(***************************************************************************)
(* Specification SpecIntern: calls of intern, get_index and get_string on  *)
(* one StringInterner.  src is the string of the last call, res its        *)
(* result and the interner it leaves, tree the strings before the call,    *)
(* and issued the (string, index) pairs intern has returned.               *)
(***************************************************************************)
MaxStrLen == 3

\* The strings of up to MaxStrLen letters x.
StrPool == {[i \in 1..k |-> "x"] : k \in 0..MaxStrLen}

InitIntern ==
    /\ res = Ok(Parser_new(<<>>), <<>>)
    /\ src = <<>> /\ ppc = "new" /\ tree = <<>> /\ issued = {}
    /\ this = FileConversion_new /\ lpc = "idle" /\ file = File_new

Intern ==
    /\ ppc \in {"new", "intern", "get_index", "get_string"}
    /\ \E s \in StrPool :
        /\ src' = s
        /\ res' = intern(res.p, s)
        /\ issued' = issued \cup {<<s, intern(res.p, s).val>>}
    /\ tree' = res.p.interner
    /\ ppc' = "intern"
    /\ UNCHANGED <<file, this, lpc>>

GetIndex ==
    /\ ppc \in {"new", "intern", "get_index", "get_string"}
    /\ \E s \in StrPool :
        /\ src' = s
        /\ res' = get_index(res.p, s)
    /\ tree' = res.p.interner
    /\ ppc' = "get_index"
    /\ UNCHANGED <<file, this, lpc, issued>>

\* get_string on an index that intern returned, or on the next one.
GetString ==
    /\ ppc \in {"new", "intern", "get_index", "get_string"}
    /\ \E i \in 0..Len(res.p.interner) : res' = get_string(res.p, i)
    /\ tree' = res.p.interner
    /\ ppc' = "get_string"
    /\ UNCHANGED <<file, this, lpc, issued, src>>

NextIntern == Intern \/ GetIndex \/ GetString

SpecIntern == InitIntern /\ [][NextIntern]_vars

\* C15: after any sequence of calls, get_string(intern(s)) is s for every
\* interned s, two interned strings have the same index exactly when they
\* are the same string, interning a present string returns its original
\* index and leaves the set as it was, a new string gets the previous size
\* of the set as its index, and get_index never changes the set.
C15_InternerInjectiveStable ==
    /\ \A e \in issued :
          /\ get_string(res.p, e[2]) = Ok(res.p, e[1])
          /\ get_index(res.p, e[1]) = Ok(res.p, Some(e[2]))
    /\ \A e1, e2 \in issued : (e1[1] = e2[1]) <=> (e1[2] = e2[2])
    /\ (ppc = "intern" /\ src \in Range(tree)) =>
          /\ res.p.interner = tree
          /\ res.ok /\ res.val < Len(tree)
    /\ (ppc = "intern" /\ src \notin Range(tree)) =>
          /\ res.p.interner = Append(tree, src)
          /\ res.ok /\ res.val = Len(tree)
    /\ ppc \in {"get_index", "get_string"} => res.p.interner = tree

\* A string was interned again after another string was interned.
C15_Witness ==
    /\ ppc = "intern"
    /\ Len(tree) >= 2
    /\ src = tree[1]
    /\ res.val = 0

(***************************************************************************)
(* Specification SpecLex: main()'s Token::lexer(&file) on a text of up to  *)
(* MaxText characters, and again after a line comment was appended to one  *)
(* of its lines.  res is the token sequence of the last run and tree the   *)
(* one of the run before.                                                  *)
(***************************************************************************)
MaxText == 4

LexAlphabet == {"a", ",", " ", "\n"}

LexTexts == SeqsUpTo(LexAlphabet, MaxText)

\* `//`, ` //` and a tab with `// c`
Comments == {<<"/", "/">>, <<" ", "/", "/">>, <<"\t", "/", "/", " ", "c">>}

\* The counts k of characters after which a line of the text ends.
LineEnds(s) == {k \in 0..Len(s) : k = Len(s) \/ s[k + 1] = "\n"}

InitLex ==
    /\ src \in LexTexts
    /\ res = <<>> /\ ppc = "start" /\ tree = <<>>
    /\ this = FileConversion_new /\ lpc = "idle" /\ file = File_new /\ issued = {}

\* for token in lexer::Token::lexer(&file)
LexFile ==
    /\ ppc \in {"start", "commented"}
    /\ res' = lexer(src, 1)
    /\ tree' = res
    /\ ppc' = IF ppc = "start" THEN "lexed" ELSE "relexed"
    /\ UNCHANGED <<file, issued, this, lpc, src>>

\* The text gets a comment at the end of one of its lines.
AppendComment ==
    /\ ppc = "lexed"
    /\ \E k \in LineEnds(src), c \in Comments :
          src' = SubSeq(src, 1, k) \o c \o SubSeq(src, k + 1, Len(src))
    /\ ppc' = "commented"
    /\ UNCHANGED <<file, issued, tree, this, lpc, res>>

NextLex == LexFile \/ AppendComment

SpecLex == InitLex /\ [][NextLex]_vars

\* C16: a text with a `//` comment appended to the end of one of its lines,
\* after optional blanks, lexes to the token sequence of the text without
\* the comment.
C16_CommentTransparent == ppc = "relexed" => res = tree

(***************************************************************************)
(* What the parser is expected to return, stated without the parser.       *)
(***************************************************************************)
Parsed == ppc # "start"

\* The statement list of a text that is one expression statement.
OneExpr(e) == <<PExprStmt(e)>>

ApplyTable ==
    {<<ApplyText(t[1], t[2], t[3]), t>> :
        t \in ApplyTerminals \X ApplyTerminals \X ApplyTerminals}

\* The value of the i-th terminal of ts: the number, or the variable whose
\* name is the count of distinct words interned before it.
TerminalValue(ts, i) ==
    IF ts[i] = <<"7">> THEN PNumber(7)
    ELSE PVar(Cardinality({ts[j] : j \in {k \in 1..i : \A l \in 1..k : ts[l] # ts[i]}}
                          \ {<<"7">>}))

\* C5: function application by whitespace is left-associative: for any
\* three terminals, `f a b` parses to Apply(Apply(f, a), b).
C5_ApplicationLeftAssociative ==
    Parsed =>
        \A e \in ApplyTable :
            src = e[1] =>
                /\ res.ok
                /\ res.val = OneExpr(POperation(
                                 POperation(TerminalValue(e[2], 1),
                                            TerminalValue(e[2], 2), "Apply"),
                                 TerminalValue(e[2], 3), "Apply"))

\* The levels of the binary operators, lowest first.
OpLevel(op) ==
    CASE op \in {"LogicAnd", "LogicOr"} -> 1
      [] op \in {"Equal", "NotEqual", "Less", "LessEqual", "Greater", "GreaterEqual"} -> 2
      [] op \in {"Add", "Sub"} -> 3
      [] op \in {"Mul", "Div"} -> 4
      [] op \in {"And", "Or", "Xor"} -> 5

PrecTable == {<<PrecText(op1, op2), op1, op2>> : op1, op2 \in InfixOps}

\* C6: for binary operators of two different levels, separated by single
\* spaces, `a lo b hi c` parses to lo(a, hi(b, c)) and `a hi b lo c` parses
\* to lo(hi(a, b), c).
C6_PrecedenceBetweenLevels ==
    Parsed =>
        \A e \in PrecTable :
            src = e[1] =>
                /\ OpLevel(e[2]) < OpLevel(e[3]) =>
                      /\ res.ok
                      /\ res.val = OneExpr(POperation(
                                       PVar(0),
                                       POperation(PVar(1), PVar(2), e[3]), e[2]))
                /\ OpLevel(e[2]) > OpLevel(e[3]) =>
                      /\ res.ok
                      /\ res.val = OneExpr(POperation(
                                       POperation(PVar(0), PVar(1), e[2]),
                                       PVar(2), e[3]))

\* `a + b * c` was parsed to a + (b * c).
C6_Witness ==
    /\ Parsed
    /\ src = PrecText("Add", "Mul")
    /\ res.ok
    /\ res.val = OneExpr(POperation(PVar(0), POperation(PVar(1), PVar(2), "Mul"),
                                    "Add"))

\* C7: the text `& * x` parses to Borrow(Deref(Var x)).
C7_SpacedPrefixOperatorsNest ==
    (Parsed /\ src = <<"&", " ", "*", " ", "x">>) =>
        /\ res.ok
        /\ res.val = OneExpr(PBorrow(PDeref(PVar(0))))

RECURSIVE HasEmptyBlock(_)
HasEmptyBlock(stmts) ==
    \E s \in Range(stmts) : \E b \in PStmtBlocks(s) : b = <<>> \/ HasEmptyBlock(b)

\* C8: blocks are never empty: no parse that returns Ok holds a block with
\* zero statements, also when the text ends right after the newline of a
\* block header.
C8_BlocksNeverEmpty == (Parsed /\ res.ok) => ~HasEmptyBlock(res.val)

\* C9: the top-level text `if x\n    set y = 1\nelse\n    set y = 2` parses
\* to a single IfElse whose default is Some(block).
C9_TopLevelElseAttached ==
    (Parsed /\ src = IfElseText(0)) =>
        /\ res.ok
        /\ Len(res.val) = 1
        /\ res.val[1].kind = "IfElse"
        /\ res.val[1].default # None

RECURSIVE SplitLines(_)
\* The lines of a text, without their newlines.
SplitLines(s) ==
    IF s = <<>> THEN <<>>
    ELSE <<SubSeq(s, 1, run_len_until(s, 1, "\n"))>>
         \o SplitLines(SubSeq(s, run_len_until(s, 1, "\n") + 2, Len(s)))

\* The count of the leading whitespace of a line.
LineIndent(line) == run_len(line, 1, Blank)

\* The tokens of a line after its indent.
LineTokens(line) == lexer(SubSeq(line, LineIndent(line) + 1, Len(line)), 1)

\* The line is the header of a construct that opens a block of its own.
OpensBlock(line) ==
    /\ LineTokens(line) # <<>>
    /\ \/ Head(LineTokens(line)) \in
              {Token_Keyword(k) : k \in {"Scope", "If", "Else", "Func", "Proc", "Cond"}}
       \/ LineTokens(line)[Len(LineTokens(line))] = Token_Keyword("Scope")

RECURSIVE MisIndented(_, _, _, _)
\* Some line from the i-th on is indented deeper than the open block
\* without being the first line of a block just opened, or to a width
\* strictly between two open levels.  levels is the indent stack before the
\* line and opened tells that the line before was a block header; a header
\* whose block is missing ends the walk.
MisIndented(lines, i, levels, opened) ==
    IF i > Len(lines) THEN FALSE
    ELSE IF LineTokens(lines[i]) = <<>>
    THEN MisIndented(lines, i + 1, levels, opened)
    ELSE IF opened
    THEN /\ LineIndent(lines[i]) > levels[Len(levels)]
         /\ MisIndented(lines, i + 1, Append(levels, LineIndent(lines[i])),
                        OpensBlock(lines[i]))
    ELSE \/ LineIndent(lines[i]) \notin Range(levels)
         \/ MisIndented(lines, i + 1,
                        SelectSeq(levels, LAMBDA l : l <= LineIndent(lines[i])),
                        OpensBlock(lines[i]))

\* C10: a line indented deeper than the open block it follows (and not the
\* first line of a newly opened block), or to a width strictly between two
\* levels of the indent stack, makes parse_file return an error.
C10_MisIndentedLineIsError ==
    (Parsed /\ MisIndented(SplitLines(src), 1, <<0>>, FALSE)) => ~res.ok

\* `scope`, a line at indent 2 and a line that is neither at indent 2 nor
\* at indent 0 were parsed, with an error.
C10_Witness ==
    /\ Parsed
    /\ Len(SplitLines(src)) = 3
    /\ SplitLines(src)[1] = KeywordText("Scope")
    /\ SplitLines(src)[2] = <<" ", " ", "x">>
    /\ LineIndent(SplitLines(src)[3]) \in {1, 3}
    /\ MisIndented(SplitLines(src), 1, <<0>>, FALSE)
    /\ ~res.ok
    /\ res.err = "Internal error: Unexpected indent"

RECURSIVE NestTree(_, _, _)
\* The statements at indent L of a nest followed by a line at level `to`:
\* the nest's construct with the nested statements as its block, and the
\* statement `x` of the last line when `to` is L.
NestTree(ks, L, to) ==
    (IF ks = <<>> THEN <<PExprStmt(PVar(0))>>
     ELSE Bind(NestTree(Tail(ks), BodyIndent(Head(ks), L), to), LAMBDA block :
          CASE Head(ks) = "scope" -> <<PScope(block)>>
            [] Head(ks) = "func" -> <<PFunctionDef(FALSE, 0, PatGroup(<<>>), block)>>
            [] Head(ks) = "if" -> <<PIfElse(PVar(0), block, None)>>
            [] Head(ks) = "cond" ->
                 IF to = L + 2
                 THEN <<PConditional(<<PVar(0), PVar(0)>>,
                                     <<PActScope(block), PActExpr(PVar(0))>>)>>
                 ELSE <<PConditional(<<PVar(0)>>, <<PActScope(block)>>)>>))
    \o (IF to = L /\ ks # <<>> THEN <<PExprStmt(PVar(0))>> ELSE <<>>)

\* C11: a line de-indented to a level of ws_stack closes the deeper blocks
\* of scope, func, if and cond without error and is parsed as the next
\* statement (the next case, at the level of the cases of a cond) of the
\* block at that level.
C11_DedentClosesBlocks ==
    (Parsed /\ src \in DedentSources) =>
        \A e \in DedentTable :
            (e[3] \in OpenLevels(e[2], 0) /\ src \in {e[1], e[1] \o <<"\n">>}) =>
                /\ res.ok
                /\ res.val = NestTree(e[2], 0, e[3])

\* A line de-indented past two blocks to a level in between was parsed.
C11_Witness ==
    /\ Parsed
    /\ \E e \in DedentTable :
        /\ Len(e[2]) = 2 /\ e[3] > 0 /\ e[3] \in OpenLevels(e[2], 0)
        /\ e[3] < BodyIndent(e[2][1], 0)
        /\ src = e[1]
    /\ res.ok

\* C12: a line inside a block whose leading whitespace run matches no open
\* indent level by its character count makes parse_file return the error
\* "Insufficient indentation".
C12_MismatchedIndentMessage ==
    (/\ Parsed
     /\ Len(SplitLines(src)) >= 3
     /\ LineIndent(SplitLines(src)[1]) = 0 /\ OpensBlock(SplitLines(src)[1])
     /\ LineIndent(SplitLines(src)[2]) > 0
     /\ MisIndented(SplitLines(src), 3, <<0, LineIndent(SplitLines(src)[2])>>,
                    OpensBlock(SplitLines(src)[2]))) =>
        (~res.ok /\ res.err = "Insufficient indentation")

\* C17: a number literal [0-9][0-9_]* parses to the Number of its digits
\* with the underscores removed.
C17_UnderscoresAccepted ==
    (Parsed /\ src \in NumberSources) =>
        /\ res.ok
        /\ res.val = OneExpr(PNumber(decimal(SelectSeq(src, LAMBDA c : c # "_"))))

\* C18: `return` followed directly by the end of the line parses to
\* Stmt::Return(None) and lowers to Stmt::Return(None).
C18_BareReturn ==
    (Parsed /\ src \in ReturnSources) =>
        /\ res.ok
        /\ res.val = <<PReturn(None)>>
        /\ lpc = "done" => this.file.stmts = <<IrReturn(None)>>

\* C20: a parenthesized list of no item parses to the empty group, of one
\* item to the item, and of n >= 2 items to the group of the n items, also
\* when the first item is a group.
C20_GroupHasItsItems ==
    \A e \in GroupTable :
        (Parsed /\ src = e[1]) =>
            /\ res.ok
            /\ res.val = OneExpr(IF Len(e[2]) = 0 THEN PGroup(<<>>)
                                 ELSE IF Len(e[2]) = 1 THEN e[2][1][2]
                                 ELSE PGroup([i \in DOMAIN e[2] |-> e[2][i][2]]))

\* C21: whitespace before a token that can start an expression (a word, a
\* number, a string, `*`, `&`, `(`) is the application operator: `f`, a
\* blank and the operand parse to Apply(f, operand).
C21_WhitespaceBeforeStarterApplies ==
    (Parsed /\ src \in StarterSources) =>
        \A e \in StarterTable :
            src = e[1] => (res.ok /\ res.val = OneExpr(POperation(PVar(0), e[2], "Apply")))

\* C22: two binary operators of the same level associate to the right:
\* `a op1 b op2 c` parses to op1(a, op2(b, c)).
C22_SameLevelRightAssociative ==
    (Parsed /\ src \in PrecSources) =>
        \A e \in PrecTable :
            (src = e[1] /\ OpLevel(e[2]) = OpLevel(e[3])) =>
                /\ res.ok
                /\ res.val = OneExpr(POperation(
                                 PVar(0), POperation(PVar(1), PVar(2), e[3]), e[2]))

\* C24: ws_stack is never popped below the [0] that parse_file pushed, and
\* it is [0] when parse_file returns Ok.
C24_IndentStackBalanced ==
    Parsed =>
        /\ res.p.ws_stack # <<>>
        /\ res.ok => res.p.ws_stack = <<0>>

\* The node a prefix operator makes.
PrefixNode(pre, inner) == IF pre = "&" THEN PBorrow(inner) ELSE PDeref(inner)

\* C26: a prefix `&` or `*` takes as its operand the expression parsed with
\* the caller's precedence floor: at statement level `&a op b` is the
\* prefix node of the operation, `&f x` the prefix node of the application,
\* and in `a op1 &b op2 c` the operand absorbs op2 exactly when op2 binds
\* tighter than op1.
C26_PrefixTakesWholeExpression ==
    (Parsed /\ src \in PrefixOpSources) =>
        /\ res.ok
        /\ \A e \in PrefixOpTable :
              src = e[1] =>
                  res.val = OneExpr(PrefixNode(e[2], POperation(PVar(0), PVar(1), e[3])))
        /\ \A pre \in PrefixOps :
              src = <<pre, "f", " ", "x">> =>
                  res.val = OneExpr(PrefixNode(pre, POperation(PVar(0), PVar(1), "Apply")))
        /\ \A e \in PrefixInnerTable :
              src = e[1] =>
                  res.val = OneExpr(
                      IF OpLevel(e[4]) > OpLevel(e[3])
                      THEN POperation(PVar(0),
                                      PrefixNode(e[2], POperation(PVar(1), PVar(2), e[4])),
                                      e[3])
                      ELSE POperation(POperation(PVar(0), PrefixNode(e[2], PVar(1)), e[3]),
                                      PVar(2), e[4]))

\* `&a + b` was parsed to the Borrow of the sum.
C26_Witness ==
    /\ Parsed
    /\ src = <<"&", "a", " ", "+", " ", "b">>
    /\ res.ok
    /\ res.val = OneExpr(PBorrow(POperation(PVar(0), PVar(1), "Add")))

\* C27: the infix loop is not re-entered after the postfix loop: `a.b op c`
\* and `a.b c` are rejected with "Expected ';' or EOL", `a op b.c` is
\* op(a, Field(b, c)) for the operators up to + and - and Field(op(a, b), c)
\* for the tighter ones, from * and / on.
C27_NoInfixAfterPostfix ==
    (Parsed /\ src \in FieldSources) =>
        /\ \A e \in FieldLeftTable :
              src = e[1] => (~res.ok /\ res.err = "Expected ';' or EOL")
        /\ src = <<"a", ".", "b", " ", "c">> =>
              (~res.ok /\ res.err = "Expected ';' or EOL")
        /\ \A e \in FieldRightTable :
              src = e[1] =>
                  /\ res.ok
                  /\ res.val = OneExpr(
                         IF OpLevel(e[2]) <= 3
                         THEN POperation(PVar(0), PField(PVar(1), 2), e[2])
                         ELSE PField(POperation(PVar(0), PVar(1), e[2]), 2))

\* `a.b + c` was rejected.
C27_Witness ==
    /\ Parsed
    /\ src = <<"a", ".", "b", " ", "+", " ", "c">>
    /\ ~res.ok
    /\ res.err = "Expected ';' or EOL"

=============================================================================
